---- MODULE Spec2Model ----
(***************************************************************************)
(* Model of the agent coordination engine of copilot-agent-mesh:           *)
(*   - MessageBus      (src/src/message-bus.ts): mailboxes and task list,  *)
(*   - MessagePoller   (src/src/message-poller.ts): per-agent poll timers, *)
(*   - Orchestrator    (src/src/orchestrator.ts): agents, turn counts and  *)
(*     the sendToAgent dispatch function.                                  *)
(* JavaScript runs handlers to completion; every action below is one       *)
(* synchronous run of a handler up to its next await.                      *)
(***************************************************************************)
EXTENDS Integers, Sequences, FiniteSets, TLC

\* ------------------------------------------------------------------------
\* Bounds and input sets
\* ------------------------------------------------------------------------
Ids == {"lead", "t1", "t2"}          \* agent ids used as inputs
Broadcast == "*"                      \* the broadcast recipient
NoAgent == "none"                     \* JavaScript undefined (assignee / result)
Contents == {"c1", "c2"}              \* message contents
Events == {"message", "task:completed"}  \* events listened to
Results == {"r"}                      \* task results / failure reasons
MaxMsgs == 2                          \* cap on msgCounter
MaxTasks == 3                         \* cap on taskCounter
\* opts given to createTask: assignee and dependsOn
CreateChoices == {[assignee |-> "none", dependsOn |-> <<>>],
                  [assignee |-> "t1", dependsOn |-> <<>>],
                  [assignee |-> "none", dependsOn |-> <<1>>],
                  [assignee |-> "none", dependsOn |-> <<2, 3>>]}
TaskAgents == {"t1", "t2"}            \* callers of the task operations
LeadId == "lead"                      \* the id createLead gives the lead
TeammateIds == <<"t1", "t2", "t3">>   \* teammate-<n>-<name>, by agentCounter
MaxTurnsPerAgent == 2                 \* config.maxTurnsPerAgent
MaxSpawns == 1                        \* cap on agentCounter
MaxEnqueued == 1                      \* cap on enqueue-mode sends per session
MaxStops == 1                         \* cap on the calls of stop()
PollIds == {"lead", "t1"}             \* ids the poller is called with
MaxPolled == 2                        \* cap on the agents startPolling is called for
MaxWait == 2                          \* largest timeoutMs of waitForCompletion, in sleeps
Chars == {"a", "n"}                   \* characters of a delta; "n" is the line feed
Prefix == "P"                         \* the coloured "[name] " prefix of the worker
MaxDelta == 2                         \* cap on the length of one deltaContent
MaxOut == 5                           \* cap on the events one listener is given

VARIABLES
  mailboxes,     \* MessageBus.mailboxes : id -> sequence of AgentMessage
  msgCounter,    \* MessageBus.msgCounter
  tasks,         \* MessageBus.tasks : task number -> Task
  taskCounter,   \* MessageBus.taskCounter
  listeners,     \* the events of the bus that have a listener (EventEmitter)
  last,          \* the last call made, its arguments, outcome and emitted events
  agents,        \* Orchestrator.agents : id -> ManagedAgent (index into objs)
  objs,          \* every ManagedAgent created, with its session
  turnCounts,    \* Orchestrator.turnCounts : id -> number
  agentCounter,  \* Orchestrator.agentCounter
  running,       \* Orchestrator.running
  pollHandles,   \* MessagePoller.pollHandles : id -> interval (of an agent object)
  timers,        \* the intervals that have not been cleared
  pollerRunning, \* MessagePoller.running
  pending,       \* createAgent calls awaiting client.createSession
  shutting,      \* shutdownAgent calls awaiting session.destroy
  stopPc,        \* where the stop() call stands
  stopVisited,   \* the agents whose session stop() has destroyed
  stops,         \* number of stop() calls made
  waiting,       \* where the waitForCompletion() call stands, and the time it has left
  router         \* one fallback streaming listener: its flag, its output, its events

busVars == <<mailboxes, msgCounter, tasks, taskCounter, listeners>>
orchVars == <<agents, objs, turnCounts, agentCounter, running, pollHandles, timers,
              pollerRunning, pending, shutting, stopPc, stopVisited, stops, waiting, router>>
vars == <<mailboxes, msgCounter, tasks, taskCounter, listeners, last, agents, objs, turnCounts,
          agentCounter, running, pollHandles, timers, pollerRunning, pending,
          shutting, stopPc, stopVisited, stops, waiting, router>>

\* ------------------------------------------------------------------------
\* Small helpers
\* ------------------------------------------------------------------------
RECURSIVE SelectSeqP(_, _)
\* Array.prototype.filter for "not read": the unread messages, order kept.
SelectSeqP(s, keepRead) ==
  IF s = <<>> THEN <<>>
  ELSE IF Head(s).read = keepRead
       THEN <<Head(s)>> \o SelectSeqP(Tail(s), keepRead)
       ELSE SelectSeqP(Tail(s), keepRead)

Range(s) == {s[i] : i \in 1..Len(s)}

NoCall == [op |-> "init", who |-> NoAgent, arg |-> NoAgent, task |-> 0,
           mark |-> FALSE, ok |-> TRUE, ret |-> <<>>, ev |-> <<>>]

Call(op, who, arg, task, mark, ok, ret, ev) ==
  [op |-> op, who |-> who, arg |-> arg, task |-> task,
   mark |-> mark, ok |-> ok, ret |-> ret, ev |-> ev]

\* ------------------------------------------------------------------------
\* MessageBus: registration and messaging
\* ------------------------------------------------------------------------
\* RegisterBox without the test for an existing mailbox.
RegisterBox_Overwrite(mb, agentId) ==
  [a \in DOMAIN mb \cup {agentId} |-> IF a = agentId THEN <<>> ELSE mb[a]]

\* registerAgent: creates an empty mailbox if absent.
RegisterBox(mb, agentId) ==
  IF agentId \in DOMAIN mb THEN mb
  ELSE [a \in DOMAIN mb \cup {agentId} |-> IF a \in DOMAIN mb THEN mb[a] ELSE <<>>]

\* unregisterAgent: mailboxes.delete(agentId).
UnregisterBox(mb, agentId) == [a \in DOMAIN mb \ {agentId} |-> mb[a]]

\* The AgentMessage built at the top of sendMessage (timestamp left out).
NewMessage(n, from, to, content) ==
  [id |-> n, from |-> from, to |-> to, content |-> content, read |-> FALSE]

\* Does sendMessage get past the recipient check?
SendAccepted(mb, to) == to = Broadcast \/ to \in DOMAIN mb

\* SendBoxes with the message put at the front of the recipient's box.
SendBoxes_Prepend(mb, msg) ==
  IF msg.to = Broadcast
  THEN [a \in DOMAIN mb |->
          IF a # msg.from THEN <<[msg EXCEPT !.to = a]>> \o mb[a] ELSE mb[a]]
  ELSE IF msg.to \in DOMAIN mb
       THEN [mb EXCEPT ![msg.to] = <<msg>> \o @]
       ELSE mb

\* SendBoxes with the sender not skipped by a broadcast.
SendBoxes_ToSender(mb, msg) ==
  IF msg.to = Broadcast
  THEN [a \in DOMAIN mb |-> Append(mb[a], [msg EXCEPT !.to = a])]
  ELSE IF msg.to \in DOMAIN mb
       THEN [mb EXCEPT ![msg.to] = Append(@, msg)]
       ELSE mb

\* SendBoxes with a mailbox created on demand for an unknown recipient.
SendBoxes_AutoCreate(mb, msg) ==
  IF msg.to = Broadcast
  THEN [a \in DOMAIN mb |->
          IF a # msg.from THEN Append(mb[a], [msg EXCEPT !.to = a]) ELSE mb[a]]
  ELSE [a \in DOMAIN mb \cup {msg.to} |->
          IF a = msg.to
          THEN Append(IF a \in DOMAIN mb THEN mb[a] ELSE <<>>, msg)
          ELSE mb[a]]

\* The mailboxes after sendMessage (unchanged when the recipient is unknown).
SendBoxes(mb, msg) ==
  IF msg.to = Broadcast
  THEN [a \in DOMAIN mb |->
          IF a # msg.from THEN Append(mb[a], [msg EXCEPT !.to = a]) ELSE mb[a]]
  ELSE IF msg.to \in DOMAIN mb
       THEN [mb EXCEPT ![msg.to] = Append(@, msg)]
       ELSE mb

\* readMessages: the unread messages of the box, [] for an unknown id.
UnreadOf(mb, agentId) ==
  IF agentId \in DOMAIN mb THEN SelectSeqP(mb[agentId], FALSE) ELSE <<>>

\* MarkedBoxes with no message marked.
MarkedBoxes_NoMark(mb, agentId, markRead) == mb

\* MarkedBoxes with only the first message of the box marked.
MarkedBoxes_FirstOnly(mb, agentId, markRead) ==
  IF agentId \in DOMAIN mb /\ markRead
  THEN [mb EXCEPT ![agentId] =
          [i \in 1..Len(@) |-> IF i = 1 THEN [@[i] EXCEPT !.read = TRUE] ELSE @[i]]]
  ELSE mb

\* The mailboxes after readMessages(agentId, markRead).
MarkedBoxes(mb, agentId, markRead) ==
  IF agentId \in DOMAIN mb /\ markRead
  THEN [mb EXCEPT ![agentId] = [i \in 1..Len(@) |-> [@[i] EXCEPT !.read = TRUE]]]
  ELSE mb

\* hasUnreadMessages answering for any message, read or not.
hasUnreadMessages_AnyMessage(mb, agentId) ==
  IF agentId \in DOMAIN mb THEN Len(mb[agentId]) > 0 ELSE FALSE

\* hasUnreadMessages: box.some(m => !m.read), false for an unknown id.
hasUnreadMessages(mb, agentId) ==
  IF agentId \in DOMAIN mb THEN \E i \in 1..Len(mb[agentId]) : ~mb[agentId][i].read
  ELSE FALSE

registerAgent(agentId) ==
  /\ mailboxes' = RegisterBox(mailboxes, agentId)
  /\ last' = Call("registerAgent", agentId, NoAgent, 0, FALSE, TRUE, <<>>, <<>>)
  /\ UNCHANGED <<listeners, msgCounter, tasks, taskCounter>>
  /\ UNCHANGED orchVars

unregisterAgent(agentId) ==
  /\ mailboxes' = UnregisterBox(mailboxes, agentId)
  /\ last' = Call("unregisterAgent", agentId, NoAgent, 0, FALSE, TRUE, <<>>, <<>>)
  /\ UNCHANGED <<listeners, msgCounter, tasks, taskCounter>>
  /\ UNCHANGED orchVars

sendMessage(from, to, content) ==
  LET msg == NewMessage(msgCounter + 1, from, to, content) IN
  /\ msgCounter < MaxMsgs
  /\ msgCounter' = msgCounter + 1
  /\ mailboxes' = SendBoxes(mailboxes, msg)
  /\ last' = IF SendAccepted(mailboxes, to)
             THEN Call("sendMessage", from, to, 0, FALSE, TRUE, <<msg>>, <<"message">>)
             ELSE Call("sendMessage", from, to, 0, FALSE, FALSE, <<>>, <<>>)
  /\ UNCHANGED <<listeners, tasks, taskCounter>>
  /\ UNCHANGED orchVars

readMessages(agentId, markRead) ==
  /\ mailboxes' = MarkedBoxes(mailboxes, agentId, markRead)
  /\ last' = Call("readMessages", agentId, NoAgent, 0, markRead, TRUE,
                  UnreadOf(mailboxes, agentId), <<>>)
  /\ UNCHANGED <<listeners, msgCounter, tasks, taskCounter>>
  /\ UNCHANGED orchVars

\* ------------------------------------------------------------------------
\* MessageBus: task list
\* ------------------------------------------------------------------------
\* The Task built by createTask (description and timestamps left out).
NewTask(createdBy, assignee, dependsOn) ==
  [status |-> "pending", createdBy |-> createdBy, assignee |-> assignee,
   dependsOn |-> dependsOn, result |-> NoAgent]

\* BlockedByDependency with only the first dependsOn entry looked at.
BlockedByDependency_FirstOnly(ts, taskId) ==
  /\ Len(ts[taskId].dependsOn) > 0
  /\ LET depId == ts[taskId].dependsOn[1] IN
       depId \in DOMAIN ts /\ ts[depId].status # "completed"

\* The dependency loop of claimTask: some dependsOn entry resolves to a task
\* whose status is not completed (an id that resolves to no task is skipped).
BlockedByDependency(ts, taskId) ==
  \E i \in 1..Len(ts[taskId].dependsOn) :
    LET depId == ts[taskId].dependsOn[i] IN
      depId \in DOMAIN ts /\ ts[depId].status # "completed"

\* ClaimOutcome without the status check.
ClaimOutcome_NoStatusCheck(ts, taskId) ==
  IF taskId \notin DOMAIN ts THEN "not found"
  ELSE IF BlockedByDependency(ts, taskId) THEN "blocked by dependency"
  ELSE "ok"

\* The outcome of claimTask: "ok" or the error thrown.
ClaimOutcome(ts, taskId) ==
  IF taskId \notin DOMAIN ts THEN "not found"
  ELSE IF ts[taskId].status # "pending" THEN "not claimable"
  ELSE IF BlockedByDependency(ts, taskId) THEN "blocked by dependency"
  ELSE "ok"

\* CompleteOutcome without the assignee check.
CompleteOutcome_NoAssigneeCheck(ts, taskId, agentId) ==
  IF taskId \notin DOMAIN ts THEN "not found" ELSE "ok"

\* The outcome of completeTask.
CompleteOutcome(ts, taskId, agentId) ==
  IF taskId \notin DOMAIN ts THEN "not found"
  ELSE IF ts[taskId].assignee # agentId THEN "not assigned"
  ELSE "ok"

\* The outcome of failTask.
FailOutcome(ts, taskId) ==
  IF taskId \notin DOMAIN ts THEN "not found" ELSE "ok"

createTask(createdBy, assignee, dependsOn) ==
  /\ taskCounter < MaxTasks
  /\ taskCounter' = taskCounter + 1
  /\ tasks' = Append(tasks, NewTask(createdBy, assignee, dependsOn))
  /\ last' = Call("createTask", createdBy, assignee, taskCounter + 1, FALSE, TRUE,
                  <<>>, <<"task:created">>)
  /\ UNCHANGED <<listeners, mailboxes, msgCounter>>
  /\ UNCHANGED orchVars

\* claimTask writing the assignee before its checks.
claimTask_AssignBeforeChecks(taskId, agentId) ==
  LET out == ClaimOutcome(tasks, taskId) IN
  /\ tasks' = IF out = "ok"
              THEN [tasks EXCEPT ![taskId].assignee = agentId,
                                 ![taskId].status = "in-progress"]
              ELSE IF taskId \in DOMAIN tasks
                   THEN [tasks EXCEPT ![taskId].assignee = agentId]
                   ELSE tasks
  /\ last' = Call("claimTask", agentId, out, taskId, FALSE, out = "ok", <<>>,
                  IF out = "ok" THEN <<"task:updated">> ELSE <<>>)
  /\ UNCHANGED <<listeners, mailboxes, msgCounter, taskCounter>>
  /\ UNCHANGED orchVars

claimTask(taskId, agentId) ==
  LET out == ClaimOutcome(tasks, taskId) IN
  /\ tasks' = IF out = "ok"
              THEN [tasks EXCEPT ![taskId].assignee = agentId,
                                 ![taskId].status = "in-progress"]
              ELSE tasks
  /\ last' = Call("claimTask", agentId, out, taskId, FALSE, out = "ok", <<>>,
                  IF out = "ok" THEN <<"task:updated">> ELSE <<>>)
  /\ UNCHANGED <<listeners, mailboxes, msgCounter, taskCounter>>
  /\ UNCHANGED orchVars

completeTask(taskId, agentId, result) ==
  LET out == CompleteOutcome(tasks, taskId, agentId) IN
  /\ tasks' = IF out = "ok"
              THEN [tasks EXCEPT ![taskId].status = "completed",
                                 ![taskId].result = result]
              ELSE tasks
  /\ last' = Call("completeTask", agentId, out, taskId, FALSE, out = "ok", <<>>,
                  IF out = "ok" THEN <<"task:completed">> ELSE <<>>)
  /\ UNCHANGED <<listeners, mailboxes, msgCounter, taskCounter>>
  /\ UNCHANGED orchVars

failTask(taskId, agentId, reason) ==
  LET out == FailOutcome(tasks, taskId) IN
  /\ tasks' = IF out = "ok"
              THEN [tasks EXCEPT ![taskId].status = "failed",
                                 ![taskId].result = reason]
              ELSE tasks
  /\ last' = Call("failTask", agentId, out, taskId, FALSE, out = "ok", <<>>,
                  IF out = "ok" THEN <<"task:updated">> ELSE <<>>)
  /\ UNCHANGED <<listeners, mailboxes, msgCounter, taskCounter>>
  /\ UNCHANGED orchVars

\* EventEmitter.on(event, listener), inherited by the bus.
on(event) ==
  /\ listeners' = listeners \cup {event}
  /\ last' = Call("on", NoAgent, event, 0, FALSE, TRUE, <<>>, <<>>)
  /\ UNCHANGED <<mailboxes, msgCounter, tasks, taskCounter>>
  /\ UNCHANGED orchVars

\* What a reset call finds: the two counters, the number of mailboxes and the
\* number of events listened to.
ResetFound == <<msgCounter, taskCounter, Cardinality(DOMAIN mailboxes),
                Cardinality(listeners)>>

\* reset with the two counters left as they are.
reset_KeepCounters ==
  /\ mailboxes' = <<>>
  /\ tasks' = <<>>
  /\ listeners' = {}
  /\ last' = Call("reset", NoAgent, NoAgent, 0, FALSE, TRUE, ResetFound, <<>>)
  /\ UNCHANGED <<msgCounter, taskCounter>>
  /\ UNCHANGED orchVars

\* reset: clears mailboxes, tasks, both counters and every listener.
reset ==
  /\ mailboxes' = <<>>
  /\ tasks' = <<>>
  /\ msgCounter' = 0
  /\ taskCounter' = 0
  /\ listeners' = {}
  /\ last' = Call("reset", NoAgent, NoAgent, 0, FALSE, TRUE, ResetFound, <<>>)
  /\ UNCHANGED orchVars

\* ------------------------------------------------------------------------
\* Orchestrator: agents and the sendToAgent dispatch function
\* ------------------------------------------------------------------------
\* Map.set and Map.delete.
MapSet(m, k, v) == [x \in DOMAIN m \cup {k} |-> IF x = k THEN v ELSE m[x]]
MapDelete(m, k) == [x \in DOMAIN m \ {k} |-> m[x]]

\* The ManagedAgent built by createAgent ({info, session, busy: false}) with
\* the calls made on its session: sendAndWait calls in flight and started,
\* enqueue-mode sends, and whether destroy was called.
NewAgent(id) ==
  [id |-> id, busy |-> FALSE, inflight |-> 0, started |-> 0, enqueued |-> 0,
   destroyed |-> FALSE]

\* this.turnCounts.get(id) ?? 0
TurnsOf(tc, id) == IF id \in DOMAIN tc THEN tc[id] ELSE 0

\* SendOutcome with the prompt for a busy worker dropped instead of enqueued.
SendOutcome_DropWhenBusy(tc, os, o) ==
  IF TurnsOf(tc, os[o].id) >= MaxTurnsPerAgent THEN "dropped"
  ELSE IF os[o].busy THEN "dropped"
  ELSE "started"

\* SendOutcome with the busy check made before the turn-limit check.
SendOutcome_BusyFirst(tc, os, o) ==
  IF os[o].busy THEN "enqueued"
  ELSE IF TurnsOf(tc, os[o].id) >= MaxTurnsPerAgent THEN "dropped"
  ELSE "started"

\* SendOutcome without the turn-limit check.
SendOutcome_NoTurnLimit(tc, os, o) ==
  IF os[o].busy THEN "enqueued" ELSE "started"

\* SendOutcome without the busy check.
SendOutcome_NoBusyCheck(tc, os, o) ==
  IF TurnsOf(tc, os[o].id) >= MaxTurnsPerAgent THEN "dropped" ELSE "started"

\* The branch sendToAgent takes: the prompt is dropped, handed to
\* session.send in enqueue mode, or starts a turn with session.sendAndWait.
SendOutcome(tc, os, o) ==
  IF TurnsOf(tc, os[o].id) >= MaxTurnsPerAgent THEN "dropped"
  ELSE IF os[o].busy THEN "enqueued"
  ELSE "started"

\* The agent objects after sendToAgent has run up to its await.
SendObjs(tc, os, o) ==
  LET out == SendOutcome(tc, os, o) IN
  IF out = "enqueued" THEN [os EXCEPT ![o].enqueued = @ + 1]
  ELSE IF out = "started"
       THEN [os EXCEPT ![o].busy = TRUE, ![o].inflight = @ + 1, ![o].started = @ + 1]
       ELSE os

\* SendTurns with the enqueue-mode send counted as a turn too.
SendTurns_CountEnqueued(tc, os, o) ==
  IF SendOutcome(tc, os, o) \in {"started", "enqueued"}
  THEN MapSet(tc, os[o].id, TurnsOf(tc, os[o].id) + 1)
  ELSE tc

\* The turn counts after sendToAgent has run up to its await.
SendTurns(tc, os, o) ==
  IF SendOutcome(tc, os, o) = "started"
  THEN MapSet(tc, os[o].id, TurnsOf(tc, os[o].id) + 1)
  ELSE tc

\* Bound on the enqueue-mode sends of one session.
SendAllowed(tc, os, o) ==
  SendOutcome(tc, os, o) = "enqueued" => os[o].enqueued < MaxEnqueued

\* SettleObjs with busy cleared only when the turn succeeded.
SettleObjs_OnlyOnSuccess(os, o, ok) ==
  [os EXCEPT ![o].busy = IF ok THEN FALSE ELSE @, ![o].inflight = @ - 1]

\* The agent objects after a sendAndWait has settled: the finally block of
\* sendToAgent runs on success and on rejection.
SettleObjs(os, o, ok) ==
  [os EXCEPT ![o].busy = FALSE, ![o].inflight = @ - 1]

\* A session whose backend can call its tools: it was given a prompt and
\* destroy has not been called on it.
ToolCaller(o) == o \in 1..Len(objs) /\ objs[o].started > 0 /\ ~objs[o].destroyed

\* start(): Orchestrator.running = true.  The command line calls it once,
\* before anything else.
start ==
  /\ ~running /\ stopPc = "idle" /\ stops = 0
  /\ running' = TRUE
  /\ last' = Call("start", NoAgent, NoAgent, 0, FALSE, TRUE, <<>>, <<>>)
  /\ UNCHANGED <<busVars, agents, objs, turnCounts, agentCounter, pollHandles, timers,
                 pollerRunning, pending, shutting, stopPc, stopVisited, stops,
                 waiting, router>>

\* start() called again after a stop() call has ended: nothing but
\* Orchestrator.running is set; the poller is the one built by the constructor.
restart ==
  /\ ~running /\ stopPc = "idle" /\ stops > 0
  /\ running' = TRUE
  /\ last' = Call("start", NoAgent, "again", 0, FALSE, TRUE, <<>>, <<>>)
  /\ UNCHANGED <<busVars, agents, objs, turnCounts, agentCounter, pollHandles, timers,
                 pollerRunning, pending, shutting, stopPc, stopVisited, stops,
                 waiting, router>>

\* createAgent up to its await of client.createSession.
createLead ==
  /\ running
  /\ LeadId \notin DOMAIN agents
  /\ \A p \in pending : p.id # LeadId
  /\ mailboxes' = RegisterBox(mailboxes, LeadId)
  /\ turnCounts' = MapSet(turnCounts, LeadId, 0)
  /\ pending' = pending \cup {[id |-> LeadId, spawn |-> FALSE]}
  /\ last' = Call("createLead", LeadId, NoAgent, 0, FALSE, TRUE, <<>>, <<>>)
  /\ UNCHANGED <<listeners, msgCounter, tasks, taskCounter, agents, objs, agentCounter, running,
                 pollHandles, timers, pollerRunning, shutting, stopPc, stopVisited, stops,
                 waiting, router>>

\* spawnTeammate up to the await of client.createSession inside createAgent.
spawnTeammate ==
  LET id == TeammateIds[agentCounter + 1] IN
  /\ agentCounter < MaxSpawns
  /\ \E o \in 1..Len(objs) : objs[o].id = LeadId /\ ToolCaller(o)
  /\ agentCounter' = agentCounter + 1
  /\ mailboxes' = RegisterBox(mailboxes, id)
  /\ turnCounts' = MapSet(turnCounts, id, 0)
  /\ pending' = pending \cup {[id |-> id, spawn |-> TRUE]}
  /\ last' = Call("spawnTeammate", id, NoAgent, 0, FALSE, TRUE, <<>>, <<>>)
  /\ UNCHANGED <<listeners, msgCounter, tasks, taskCounter, agents, objs, running,
                 pollHandles, timers, pollerRunning, shutting, stopPc, stopVisited, stops,
                 waiting, router>>

\* client.createSession resolves: the rest of createAgent (agents.set,
\* poller.startPolling) and, for a teammate, the initial prompt sent by
\* spawnTeammate.
createSessionResolved(p) ==
  LET o == Len(objs) + 1
      os == Append(objs, NewAgent(p.id))
  IN
  /\ p \in pending
  /\ pending' = pending \ {p}
  /\ agents' = MapSet(agents, p.id, o)
  /\ timers' = timers \cup {o}
  /\ pollHandles' = MapSet(pollHandles, p.id, o)
  /\ IF p.spawn
     THEN /\ objs' = SendObjs(turnCounts, os, o)
          /\ turnCounts' = SendTurns(turnCounts, os, o)
          /\ last' = Call("sendToAgent", p.id, SendOutcome(turnCounts, os, o), o,
                          FALSE, TRUE, <<>>, <<"spawnTeammate">>)
     ELSE /\ objs' = os
          /\ turnCounts' = turnCounts
          /\ last' = Call("createAgent", p.id, NoAgent, o, FALSE, TRUE, <<>>, <<>>)
  /\ UNCHANGED <<busVars, agentCounter, running, pollerRunning, shutting, stopPc,
                 stopVisited, stops,
                 waiting, router>>

\* client.createSession rejects: createAgent logs and rethrows.
createSessionRejected(p) ==
  /\ p \in pending
  /\ pending' = pending \ {p}
  /\ last' = Call("createAgent", p.id, NoAgent, 0, FALSE, FALSE, <<>>, <<>>)
  /\ UNCHANGED <<busVars, agents, objs, turnCounts, agentCounter, running, pollHandles,
                 timers, pollerRunning, shutting, stopPc, stopVisited, stops,
                 waiting, router>>

\* submitTask(prompt): sendToAgent(lead, prompt), or throws without a lead.
submitTask ==
  /\ IF LeadId \in DOMAIN agents
     THEN LET o == agents[LeadId] IN
          /\ SendAllowed(turnCounts, objs, o)
          /\ objs' = SendObjs(turnCounts, objs, o)
          /\ turnCounts' = SendTurns(turnCounts, objs, o)
          /\ last' = Call("sendToAgent", LeadId, SendOutcome(turnCounts, objs, o), o,
                          FALSE, TRUE, <<>>, <<"submitTask">>)
     ELSE /\ last' = Call("submitTask", LeadId, NoAgent, 0, FALSE, FALSE, <<>>, <<>>)
          /\ UNCHANGED <<objs, turnCounts>>
  /\ UNCHANGED <<busVars, agents, agentCounter, running, pollHandles, timers,
                 pollerRunning, pending, shutting, stopPc, stopVisited, stops,
                 waiting, router>>

\* settle with the turn count of the worker set back to 0 by the handler.
settle_ResetTurns(o, ok) ==
  /\ o \in 1..Len(objs)
  /\ objs[o].inflight > 0
  /\ objs' = SettleObjs(objs, o, ok)
  /\ turnCounts' = MapSet(turnCounts, objs[o].id, 0)
  /\ last' = Call("settle", objs[o].id, IF ok THEN "resolved" ELSE "rejected", o,
                  FALSE, ok, <<>>, <<>>)
  /\ UNCHANGED <<busVars, agents, agentCounter, running, pollHandles, timers,
                 pollerRunning, pending, shutting, stopPc, stopVisited, stops,
                 waiting, router>>

\* A sendAndWait call settles (ok: resolved, otherwise rejected).
settle(o, ok) ==
  /\ o \in 1..Len(objs)
  /\ objs[o].inflight > 0
  /\ objs' = SettleObjs(objs, o, ok)
  /\ last' = Call("settle", objs[o].id, IF ok THEN "resolved" ELSE "rejected", o,
                  FALSE, ok, <<>>, <<>>)
  /\ UNCHANGED <<busVars, agents, turnCounts, agentCounter, running, pollHandles, timers,
                 pollerRunning, pending, shutting, stopPc, stopVisited, stops,
                 waiting, router>>

\* StopPollingTimers with the interval left running.
StopPollingTimers_None(ph, tm, id) == tm

\* poller.stopPolling(id): the timers left and the handles left.
StopPollingTimers(ph, tm, id) == IF id \in DOMAIN ph THEN tm \ {ph[id]} ELSE tm

\* StopPollingHandles with the handle left in the map.
StopPollingHandles_Keep(ph, id) == ph

\* poller.stopPolling(id): the handles left.
StopPollingHandles(ph, id) == MapDelete(ph, id)

\* shutdownAgent(id) up to its await of session.destroy(); throws for an
\* unknown id and for the lead.  Called by the lead's shutdown_teammate tool.
shutdownAgent(id) ==
  /\ \E c \in 1..Len(objs) : objs[c].id = LeadId /\ ToolCaller(c)
  /\ IF id \notin DOMAIN agents \/ id = LeadId
     THEN /\ last' = Call("shutdownAgent", id,
                          IF id \notin DOMAIN agents THEN "not found" ELSE "lead",
                          0, FALSE, FALSE, <<>>, <<>>)
          /\ UNCHANGED <<objs, pollHandles, timers, shutting>>
     ELSE LET o == agents[id] IN
          /\ o \notin shutting
          /\ timers' = StopPollingTimers(pollHandles, timers, id)
          /\ pollHandles' = StopPollingHandles(pollHandles, id)
          /\ objs' = [objs EXCEPT ![o].destroyed = TRUE]
          /\ shutting' = shutting \cup {o}
          /\ last' = Call("shutdownAgent", id, "destroy", o, FALSE, TRUE, <<>>, <<>>)
  /\ UNCHANGED <<busVars, agents, turnCounts, agentCounter, running, pollerRunning,
                 pending, stopPc, stopVisited, stops,
                 waiting, router>>

\* session.destroy() settles inside shutdownAgent: on success the agent is
\* unregistered and deleted, on rejection shutdownAgent throws.
shutdownSettled(o, ok) ==
  LET id == objs[o].id IN
  /\ o \in shutting
  /\ shutting' = shutting \ {o}
  /\ IF ok
     THEN /\ mailboxes' = UnregisterBox(mailboxes, id)
          /\ agents' = MapDelete(agents, id)
          /\ turnCounts' = MapDelete(turnCounts, id)
     ELSE UNCHANGED <<mailboxes, agents, turnCounts>>
  /\ last' = Call("shutdownAgent", id, IF ok THEN "removed" ELSE "rejected", o,
                  FALSE, ok, <<>>, <<>>)
  /\ UNCHANGED <<listeners, msgCounter, tasks, taskCounter, objs, agentCounter, running, pollHandles,
                 timers, pollerRunning, pending, stopPc, stopVisited, stops,
                 waiting, router>>

\* poller.stopAll(): the timers left.
StopAllTimers(ph, tm) == tm \ {ph[id] : id \in DOMAIN ph}

\* The agents the destroy loop of stop() has still to visit (Map order is
\* insertion order, which is creation order).
StopTodo(ags, visited) == {ags[id] : id \in DOMAIN ags} \ visited

\* The destroy loop of stop() runs until its next await: it calls destroy on
\* the next agent, or, with none left, clears agents and turnCounts, closes
\* the channels and calls client.stop().
StopLoop(visited) ==
  LET todo == StopTodo(agents, visited) IN
  IF todo = {}
  THEN /\ agents' = <<>>
       /\ turnCounts' = <<>>
       /\ stopPc' = "clientStop"
       /\ stopVisited' = {}
       /\ objs' = objs
  ELSE LET o == CHOOSE x \in todo : \A y \in todo : x <= y IN
       /\ objs' = [objs EXCEPT ![o].destroyed = TRUE]
       /\ stopVisited' = visited \cup {o}
       /\ stopPc' = "destroying"
       /\ UNCHANGED <<agents, turnCounts>>

\* The calls the destroy loop of stop() makes until its next await, in order.
StopCalls(visited) ==
  IF StopTodo(agents, visited) = {}
  THEN <<"agents.clear", "turnCounts.clear", "router.closeAll", "client.stop">>
  ELSE <<"session.destroy">>

\* stop() up to its first await.
stop ==
  /\ stopPc = "idle"
  /\ stops < MaxStops
  /\ stops' = stops + 1
  /\ running' = FALSE
  /\ pollerRunning' = FALSE
  /\ timers' = StopAllTimers(pollHandles, timers)
  /\ pollHandles' = <<>>
  /\ StopLoop({})
  /\ last' = Call("stop", NoAgent, "stopAll", 0, FALSE, TRUE, <<>>,
                  <<"poller.stopAll">> \o StopCalls({}))
  /\ UNCHANGED <<busVars, agentCounter, pending, shutting,
                 waiting, router>>

\* A session.destroy() awaited by stop() settles (ok: resolved; a rejection
\* is caught and collected) and the loop goes on.
stopDestroySettled(ok) ==
  /\ stopPc = "destroying"
  /\ StopLoop(stopVisited)
  /\ last' = Call("stop", NoAgent, "destroy", 0, FALSE, ok, <<>>, StopCalls(stopVisited))
  /\ UNCHANGED <<busVars, agentCounter, running, pollHandles, timers, pollerRunning,
                 pending, shutting, stops,
                 waiting, router>>

\* client.stop() settles: on success stop() resets the bus, on rejection
\* stop() throws.
stopClientSettled(ok) ==
  /\ stopPc = "clientStop"
  /\ stopPc' = "idle"
  /\ IF ok
     THEN /\ mailboxes' = <<>>
          /\ tasks' = <<>>
          /\ msgCounter' = 0
          /\ taskCounter' = 0
          /\ listeners' = {}
     ELSE UNCHANGED busVars
  /\ last' = Call("stop", NoAgent, IF ok THEN "reset" ELSE "rejected", 0, FALSE, ok,
                  <<>>, IF ok THEN <<"bus.reset">> ELSE <<>>)
  /\ UNCHANGED <<agents, objs, turnCounts, agentCounter, running, pollHandles, timers,
                 pollerRunning, pending, shutting, stopVisited, stops,
                 waiting, router>>

\* No waitForCompletion() call has been made.
NotWaiting == [pc |-> "none", left |-> 0]

\* AllSettled with the task list left out.
AllSettled_IgnoreTasks(ags, os, ts) ==
  \A id \in DOMAIN ags : ~os[ags[id]].busy

\* The test of waitForCompletion: allIdle && !pendingTasks.
AllSettled(ags, os, ts) ==
  /\ \A id \in DOMAIN ags : ~os[ags[id]].busy
  /\ ~\E t \in DOMAIN ts : ts[t].status \in {"pending", "in-progress"}

\* The loop of waitForCompletion from its top to its next await or return,
\* with left the time that remains of timeoutMs, counted in sleeps.
WaitLoop(left) ==
  IF left = 0 THEN [pc |-> "timed out", left |-> 0]
  ELSE IF AllSettled(agents, objs, tasks) THEN [pc |-> "returned", left |-> left]
  ELSE [pc |-> "sleeping", left |-> left]

\* waitForCompletion(timeoutMs) up to its first await or its return.
waitForCompletion(timeout) ==
  /\ waiting.pc = "none"
  /\ waiting' = WaitLoop(timeout)
  /\ last' = Call("waitForCompletion", NoAgent, waiting'.pc, 0, FALSE, TRUE, <<>>, <<>>)
  /\ UNCHANGED <<busVars, agents, objs, turnCounts, agentCounter, running, pollHandles,
                 timers, pollerRunning, pending, shutting, stopPc, stopVisited, stops, router>>

\* sleep(1000) ends after one second or more, and the loop goes on.
waitWake(elapsed) ==
  /\ waiting.pc = "sleeping"
  /\ elapsed \in 1..waiting.left
  /\ waiting' = WaitLoop(waiting.left - elapsed)
  /\ last' = Call("waitForCompletion", NoAgent, waiting'.pc, 0, FALSE, TRUE, <<>>, <<>>)
  /\ UNCHANGED <<busVars, agents, objs, turnCounts, agentCounter, running, pollHandles,
                 timers, pollerRunning, pending, shutting, stopPc, stopVisited, stops, router>>

\* ------------------------------------------------------------------------
\* Agent tools: the backend of a session calls the bus with its own id
\* ------------------------------------------------------------------------
\* send_message and broadcast.
toolSendMessage(o, to, content) ==
  /\ ToolCaller(o)
  /\ sendMessage(objs[o].id, to, content)

\* read_messages.
toolReadMessages(o) ==
  /\ ToolCaller(o)
  /\ readMessages(objs[o].id, TRUE)

\* create_task: the caller is the creator.
toolCreateTask(o, assignee, dependsOn) ==
  /\ ToolCaller(o)
  /\ createTask(objs[o].id, assignee, dependsOn)

\* claim_task: the caller is the claimant.
toolClaimTask(o, taskId) ==
  /\ ToolCaller(o)
  /\ claimTask(taskId, objs[o].id)

\* complete_task: the caller is the one completing.
toolCompleteTask(o, taskId, result) ==
  /\ ToolCaller(o)
  /\ completeTask(taskId, objs[o].id, result)

\* Every call the backend of session o can make that changes the bus or the
\* orchestrator: the tools of createAgentTools (list_tasks and list_teammates
\* only read) and, for the lead, those of createLeadTools.
ToolStep(o) ==
  \/ \E to \in Ids \cup {Broadcast}, c \in Contents : toolSendMessage(o, to, c)
  \/ toolReadMessages(o)
  \/ \E c \in CreateChoices : toolCreateTask(o, c.assignee, c.dependsOn)
  \/ \E t \in 1..MaxTasks : toolClaimTask(o, t)
  \/ \E t \in 1..MaxTasks, r \in Results : toolCompleteTask(o, t, r)
  \/ objs[o].id = LeadId /\ spawnTeammate
  \/ objs[o].id = LeadId /\ \E id \in Ids : shutdownAgent(id)

\* ------------------------------------------------------------------------
\* MessagePoller
\* ------------------------------------------------------------------------
\* FormatPrompt with only the newest message kept.
FormatPrompt_LastOnly(msgs) ==
  IF msgs = <<>> THEN <<>>
  ELSE <<[from |-> msgs[Len(msgs)].from, content |-> msgs[Len(msgs)].content]>>

\* The prompt a tick builds: one "[Message from <from>]: <content>" part per
\* message, joined in the order of the messages (its header gives their number).
FormatPrompt(msgs) ==
  [i \in 1..Len(msgs) |-> [from |-> msgs[i].from, content |-> msgs[i].content]]

\* TickForwards with a busy worker passed over.
TickForwards_IdleOnly(run, mb, id) ==
  /\ run
  /\ hasUnreadMessages(mb, id)
  /\ \A x \in 1..Len(objs) : objs[x].id = id => ~objs[x].busy

\* TickForwards without the test of the running flag.
TickForwards_IgnoreRunning(run, mb, id) == hasUnreadMessages(mb, id)

\* Does a firing of the interval read the mailbox and call sendToAgent?
TickForwards(run, mb, id) == run /\ hasUnreadMessages(mb, id)

\* One firing of the interval startPolling set for an agent.
tick(o) ==
  LET id == objs[o].id IN
  /\ o \in timers
  /\ IF TickForwards(pollerRunning, mailboxes, id)
     THEN /\ SendAllowed(turnCounts, objs, o)
          /\ mailboxes' = MarkedBoxes(mailboxes, id, TRUE)
          /\ objs' = SendObjs(turnCounts, objs, o)
          /\ turnCounts' = SendTurns(turnCounts, objs, o)
          /\ last' = Call("sendToAgent", id, SendOutcome(turnCounts, objs, o), o,
                          TRUE, TRUE, FormatPrompt(UnreadOf(mailboxes, id)), <<"tick">>)
     ELSE /\ last' = Call("tick", id, NoAgent, o, FALSE, TRUE, <<>>, <<>>)
          /\ UNCHANGED <<mailboxes, objs, turnCounts>>
  /\ UNCHANGED <<listeners, msgCounter, tasks, taskCounter, agents, agentCounter, running,
                 pollHandles, timers, pollerRunning, pending, shutting, stopPc,
                 stopVisited, stops,
                 waiting, router>>

\* startPolling(agent): setInterval and pollHandles.set.  createAgent calls it
\* once for each agent object it builds, for an id that has no handle.
startPolling(id) ==
  LET o == Len(objs) + 1 IN
  /\ Len(objs) < MaxPolled
  /\ id \notin DOMAIN pollHandles
  /\ objs' = Append(objs, NewAgent(id))
  /\ timers' = timers \cup {o}
  /\ pollHandles' = MapSet(pollHandles, id, o)
  /\ last' = Call("startPolling", id, NoAgent, o, FALSE, TRUE, <<>>, <<>>)
  /\ UNCHANGED <<busVars, agents, turnCounts, agentCounter, running, pollerRunning,
                 pending, shutting, stopPc, stopVisited, stops,
                 waiting, router>>

\* stopPolling(agentId): clearInterval and pollHandles.delete, nothing for an
\* id without a handle.
stopPolling(id) ==
  /\ timers' = StopPollingTimers(pollHandles, timers, id)
  /\ pollHandles' = StopPollingHandles(pollHandles, id)
  /\ last' = Call("stopPolling", id, NoAgent, 0, FALSE, TRUE, <<>>, <<>>)
  /\ UNCHANGED <<busVars, agents, objs, turnCounts, agentCounter, running,
                 pollerRunning, pending, shutting, stopPc, stopVisited, stops,
                 waiting, router>>

\* stopAll(): running = false, every interval cleared, pollHandles.clear().
stopAll ==
  /\ pollerRunning' = FALSE
  /\ timers' = StopAllTimers(pollHandles, timers)
  /\ pollHandles' = <<>>
  /\ last' = Call("stopAll", NoAgent, NoAgent, 0, FALSE, TRUE, <<>>, <<>>)
  /\ UNCHANGED <<busVars, agents, objs, turnCounts, agentCounter, running, pending,
                 shutting, stopPc, stopVisited, stops,
                 waiting, router>>

\* ------------------------------------------------------------------------
\* OutputRouter: the streaming listeners of a worker without a dedicated
\* channel (stdout with prefix)
\* ------------------------------------------------------------------------
\* config.streaming (default true).
Streaming == TRUE

\* The values deltaContent takes, the empty string among them.
Deltas == UNION {[1..k -> Chars] : k \in 0..MaxDelta}

\* The closure of attachStreamingListeners: atLineStart = true, with the
\* text written to process.stdout so far ("e" is the line feed written on
\* assistant.message) and the events received so far.
NewListener == [atLineStart |-> TRUE, written |-> <<>>, fed |-> <<>>]

RECURSIVE WriteDelta(_, _)
\* The output built by the loop over the characters of a delta.
WriteDelta(delta, atStart) ==
  IF delta = <<>> THEN <<>>
  ELSE (IF atStart THEN <<Prefix>> ELSE <<>>) \o <<Head(delta)>>
         \o WriteDelta(Tail(delta), Head(delta) = "n")

\* FlagAfter with the flag set at the end of every delta.
FlagAfter_EveryDelta(delta, atStart) == TRUE

\* atLineStart after the loop over the characters of a delta.
FlagAfter(delta, atStart) ==
  IF delta = <<>> THEN atStart ELSE delta[Len(delta)] = "n"

\* The assistant.message_delta listener.
messageDelta(delta) ==
  /\ Len(router.fed) + Len(delta) <= MaxOut
  /\ router' = IF Streaming /\ delta # <<>>
               THEN [atLineStart |-> FlagAfter(delta, router.atLineStart),
                     written |-> router.written \o WriteDelta(delta, router.atLineStart),
                     fed |-> router.fed \o delta]
               ELSE router
  /\ last' = Call("message_delta", NoAgent, NoAgent, Len(delta), FALSE, TRUE, delta, <<>>)
  /\ UNCHANGED <<busVars, agents, objs, turnCounts, agentCounter, running, pollHandles,
                 timers, pollerRunning, pending, shutting, stopPc, stopVisited, stops,
                 waiting>>

\* The assistant.message listener.
messageEnd ==
  /\ Len(router.fed) < MaxOut
  /\ router' = IF Streaming
               THEN [atLineStart |-> TRUE,
                     written |-> Append(router.written, "e"),
                     fed |-> Append(router.fed, "e")]
               ELSE router
  /\ last' = Call("message", NoAgent, NoAgent, 0, FALSE, TRUE, <<>>, <<>>)
  /\ UNCHANGED <<busVars, agents, objs, turnCounts, agentCounter, running, pollHandles,
                 timers, pollerRunning, pending, shutting, stopPc, stopVisited, stops,
                 waiting>>

\* ------------------------------------------------------------------------
\* Initial state: a newly constructed bus
\* ------------------------------------------------------------------------
Init ==
  /\ mailboxes = <<>>
  /\ msgCounter = 0
  /\ tasks = <<>>
  /\ taskCounter = 0
  /\ listeners = {}
  /\ last = NoCall
  /\ agents = <<>>
  /\ objs = <<>>
  /\ turnCounts = <<>>
  /\ agentCounter = 0
  /\ running = FALSE
  /\ pollHandles = <<>>
  /\ timers = {}
  /\ pollerRunning = TRUE
  /\ pending = {}
  /\ shutting = {}
  /\ stopPc = "idle"
  /\ stopVisited = {}
  /\ stops = 0
  /\ waiting = NotWaiting
  /\ router = NewListener

\* The mailbox operations called directly, with any arguments.
NextMail ==
  \/ \E a \in Ids : registerAgent(a)
  \/ \E a \in Ids : unregisterAgent(a)
  \/ \E f \in Ids, t \in Ids \cup {Broadcast}, c \in Contents : sendMessage(f, t, c)
  \/ \E a \in Ids, m \in BOOLEAN : readMessages(a, m)
  \/ reset

SpecMail == Init /\ [][NextMail]_vars

\* The task operations called directly, with any arguments.
NextTasks ==
  \/ \E c \in {"lead"}, o \in CreateChoices : createTask(c, o.assignee, o.dependsOn)
  \/ \E t \in 1..MaxTasks, a \in TaskAgents : claimTask(t, a)
  \/ \E t \in 1..MaxTasks, a \in TaskAgents, r \in Results : completeTask(t, a, r)
  \/ \E t \in 1..MaxTasks, a \in TaskAgents, r \in Results : failTask(t, a, r)
  \/ reset

SpecTasks == Init /\ [][NextTasks]_vars

\* The whole bus called directly: mailboxes, tasks and listeners together.
NextBus ==
  \/ \E a \in PollIds : registerAgent(a)
  \/ \E t \in {"t1", Broadcast} : sendMessage("lead", t, "c1")
  \/ readMessages("t1", TRUE)
  \/ \E o \in {c \in CreateChoices : c.dependsOn = <<>>} :
       createTask("lead", o.assignee, o.dependsOn)
  \/ \E t \in 1..MaxTasks : claimTask(t, "t1")
  \/ \E t \in 1..MaxTasks : completeTask(t, "t1", "r")
  \/ \E e \in Events : on(e)
  \/ reset

SpecBus == Init /\ [][NextBus]_vars

\* The orchestrator driven by its callers, its timers and the backend.
Next ==
  \/ start
  \/ createLead
  \/ spawnTeammate
  \/ \E p \in pending : createSessionResolved(p)
  \/ \E p \in pending : createSessionRejected(p)
  \/ submitTask
  \/ \E o \in 1..Len(objs), ok \in BOOLEAN : settle(o, ok)
  \/ \E o \in timers : tick(o)
  \/ \E id \in {LeadId, TeammateIds[1]} : shutdownAgent(id)
  \/ \E o \in shutting, ok \in BOOLEAN : shutdownSettled(o, ok)
  \/ stop
  \/ \E ok \in BOOLEAN : stopDestroySettled(ok)
  \/ \E ok \in BOOLEAN : stopClientSettled(ok)
  \/ \E o \in 1..Len(objs), to \in {LeadId, TeammateIds[1], Broadcast} :
       toolSendMessage(o, to, "c1")
  \/ \E o \in 1..Len(objs) : toolReadMessages(o)

Spec == Init /\ [][Next]_vars

\* The MessagePoller called directly: mailboxes registered and written by the
\* bus, polling started and stopped in any order, the intervals firing, and
\* sendToAgent as the callback with its backend calls settling.
NextPoller ==
  \/ \E a \in PollIds : registerAgent(a)
  \/ \E f \in PollIds, t \in PollIds, c \in Contents : sendMessage(f, t, c)
  \/ \E a \in PollIds : startPolling(a)
  \/ \E a \in PollIds : stopPolling(a)
  \/ stopAll
  \/ \E o \in timers : tick(o)
  \/ \E o \in 1..Len(objs), ok \in BOOLEAN : settle(o, ok)

SpecPoller == Init /\ [][NextPoller]_vars

\* The task list as the workers reach it: a lead and a teammate are created
\* and prompted, and their backends call the task tools.
NextTools ==
  \/ start
  \/ createLead
  \/ spawnTeammate
  \/ \E p \in pending : createSessionResolved(p)
  \/ submitTask
  \/ \E o \in 1..Len(objs), c \in CreateChoices :
       objs[o].id = LeadId /\ toolCreateTask(o, c.assignee, c.dependsOn)
  \/ \E o \in 1..Len(objs), t \in 1..MaxTasks : toolClaimTask(o, t)
  \/ \E o \in 1..Len(objs), t \in 1..MaxTasks, r \in Results : toolCompleteTask(o, t, r)

SpecTools == Init /\ [][NextTools]_vars

\* An engine that is stopped and started again: the lead is created and
\* prompted, sends itself mail, is polled, and the engine stops and restarts.
NextRestart ==
  \/ start
  \/ restart
  \/ createLead
  \/ \E p \in pending : createSessionResolved(p)
  \/ submitTask
  \/ \E o \in 1..Len(objs), ok \in BOOLEAN : settle(o, ok)
  \/ \E o \in timers : tick(o)
  \/ stop
  \/ \E ok \in BOOLEAN : stopDestroySettled(ok)
  \/ \E ok \in BOOLEAN : stopClientSettled(ok)
  \/ \E o \in 1..Len(objs) : toolSendMessage(o, LeadId, "c1")

SpecRestart == Init /\ [][NextRestart]_vars

\* A single-shot run: the lead is created and prompted, spawns a teammate,
\* the workers exchange mail and work on a task, and the command line waits
\* for completion.
NextWait ==
  \/ start
  \/ createLead
  \/ spawnTeammate
  \/ \E p \in pending : createSessionResolved(p)
  \/ submitTask
  \/ \E o \in 1..Len(objs), ok \in BOOLEAN : settle(o, ok)
  \/ \E o \in timers : tick(o)
  \/ \E o \in 1..Len(objs) : toolSendMessage(o, LeadId, "c1")
  \/ \E o \in 1..Len(objs) : objs[o].id = LeadId /\ toolCreateTask(o, NoAgent, <<>>)
  \/ \E o \in 1..Len(objs) : toolClaimTask(o, 1)
  \/ \E o \in 1..Len(objs) : toolCompleteTask(o, 1, "r")
  \/ \E n \in 0..MaxWait : waitForCompletion(n)
  \/ \E d \in 1..MaxWait : waitWake(d)

SpecWait == Init /\ [][NextWait]_vars

\* setTimeout ends every sleep of waitForCompletion.
SleepEnds == WF_vars(\E d \in 1..MaxWait : waitWake(d))

SpecWaitFair == SpecWait /\ SleepEnds

\* One session streaming to the fallback sink: deltas of any split, and the
\* ends of messages.
NextRouter ==
  \/ \E d \in Deltas : messageDelta(d)
  \/ messageEnd

SpecRouter == Init /\ [][NextRouter]_vars

\* ------------------------------------------------------------------------
\* Properties of the mailbox operations (checked under SpecMail)
\* ------------------------------------------------------------------------
Unread(box) == {i \in 1..Len(box) : ~box[i].read}

\* C5: readMessages(id, markRead=true) on a registered id returns exactly the
\* messages of the mailbox that were unread, each once, in arrival order
\* (increasing message number), and right after it hasUnreadMessages(id) is
\* false.
C5_MailboxOrder ==
  [][(last'.op = "readMessages" /\ last'.mark /\ last'.who \in DOMAIN mailboxes) =>
       LET box == mailboxes[last'.who]
           ret == last'.ret
       IN /\ Len(ret) = Cardinality(Unread(box))
          /\ \A i \in Unread(box) : \E j \in 1..Len(ret) : ret[j] = box[i]
          /\ \A j, k \in 1..Len(ret) : j < k => ret[j].id < ret[k].id
          /\ \A i, k \in 1..Len(box) : i < k => box[i].id < box[k].id
          /\ ~hasUnreadMessages(mailboxes', last'.who)]_vars

\* A read that returned two messages, the earlier one first.
C5_Witness ==
  /\ last.op = "readMessages" /\ last.mark
  /\ Len(last.ret) = 2
  /\ last.ret[1].id = 1 /\ last.ret[2].id = 2
  /\ last.ret[1].content # last.ret[2].content

\* C6: a broadcast appends exactly one unread copy to the mailbox of every
\* registered id other than the sender, leaves the sender's own mailbox as it
\* was, and creates no mailbox.
C6_BroadcastDelivery ==
  [][(last'.op = "sendMessage" /\ last'.arg = Broadcast) =>
       /\ DOMAIN mailboxes' = DOMAIN mailboxes
       /\ \A a \in DOMAIN mailboxes :
            IF a = last'.who
            THEN mailboxes'[a] = mailboxes[a]
            ELSE /\ Len(mailboxes'[a]) = Len(mailboxes[a]) + 1
                 /\ SubSeq(mailboxes'[a], 1, Len(mailboxes[a])) = mailboxes[a]
                 /\ LET m == mailboxes'[a][Len(mailboxes'[a])]
                    IN /\ ~m.read /\ m.from = last'.who /\ m.to = a
                       /\ m.content = last'.ret[1].content
                       /\ m.id = last'.ret[1].id]_vars

\* A broadcast by a registered sender with one other registered id, which got
\* the copy, and one id that is not registered.
C6_Witness ==
  /\ last.op = "sendMessage" /\ last.arg = Broadcast
  /\ last.who \in DOMAIN mailboxes
  /\ \E a \in DOMAIN mailboxes \ {last.who} :
       Len(mailboxes[a]) > 0 /\ mailboxes[a][Len(mailboxes[a])].id = msgCounter
  /\ Ids \ DOMAIN mailboxes # {}
  /\ ~hasUnreadMessages(mailboxes, last.who)

\* C7: a direct sendMessage to an id that is not registered fails, leaves
\* every mailbox unchanged and emits no message event.
C7_UnknownRecipient ==
  [][(last'.op = "sendMessage" /\ last'.arg # Broadcast
        /\ last'.arg \notin DOMAIN mailboxes) =>
       /\ ~last'.ok
       /\ mailboxes' = mailboxes
       /\ last'.ev = <<>>]_vars

\* A failed direct send while some mailbox held a message.
C7_Witness ==
  /\ last.op = "sendMessage" /\ ~last.ok
  /\ last.arg \notin DOMAIN mailboxes
  /\ \E a \in DOMAIN mailboxes : Len(mailboxes[a]) > 0

\* ------------------------------------------------------------------------
\* Properties of the task operations (checked under SpecTasks)
\* ------------------------------------------------------------------------
\* C8: claimTask on a pending task fails, changing nothing, while some task
\* listed in its dependsOn has a status other than completed, and succeeds
\* (in-progress, caller as assignee) when every listed task is completed.
C8_DependencyGating ==
  [][(last'.op = "claimTask" /\ last'.task \in DOMAIN tasks
        /\ tasks[last'.task].status = "pending") =>
       LET t == last'.task
           deps == Range(tasks[t].dependsOn) \cap DOMAIN tasks
       IN IF \E d \in deps : tasks[d].status # "completed"
          THEN ~last'.ok /\ tasks' = tasks
          ELSE /\ last'.ok
               /\ tasks'[t].status = "in-progress"
               /\ tasks'[t].assignee = last'.who]_vars

\* A claim that succeeded on a task with two dependencies, both completed.
C8_Witness ==
  /\ last.op = "claimTask" /\ last.ok
  /\ Len(tasks[last.task].dependsOn) = 2
  /\ \A d \in Range(tasks[last.task].dependsOn) :
       d \in DOMAIN tasks /\ tasks[d].status = "completed"
  /\ tasks[last.task].status = "in-progress"

\* C9: claimTask fails, changing nothing, on every task that is not pending,
\* and a task that has left pending never returns to it, so at most one claim
\* of a task succeeds.
C9_NoDoubleClaim ==
  [][/\ (last'.op = "claimTask" /\ last'.task \in DOMAIN tasks
           /\ tasks[last'.task].status # "pending") =>
          (~last'.ok /\ tasks' = tasks)
     /\ (last'.op # "reset") =>
          \A t \in DOMAIN tasks :
            tasks[t].status # "pending" =>
              (t \in DOMAIN tasks' /\ tasks'[t].status # "pending")]_vars

\* A claim by another agent that lost against the agent holding the task.
C9_Witness ==
  /\ last.op = "claimTask" /\ ~last.ok /\ last.arg = "not claimable"
  /\ tasks[last.task].status = "in-progress"
  /\ tasks[last.task].assignee \in TaskAgents \ {last.who}

\* C10: completeTask by an id other than the task's assignee fails and leaves
\* the task (status, result, assignee) as it was.
C10_CompleteOnlyByAssignee ==
  [][(last'.op = "completeTask" /\ last'.task \in DOMAIN tasks
        /\ tasks[last'.task].assignee # last'.who) =>
       (~last'.ok /\ tasks'[last'.task] = tasks[last'.task])]_vars

\* A completeTask by another agent on a task that is in progress.
C10_Witness ==
  /\ last.op = "completeTask" /\ ~last.ok /\ last.arg = "not assigned"
  /\ tasks[last.task].status = "in-progress"
  /\ tasks[last.task].assignee \in TaskAgents \ {last.who}
  /\ tasks[last.task].result = NoAgent

\* ------------------------------------------------------------------------
\* Properties of the dispatch function (checked under Spec)
\* ------------------------------------------------------------------------
\* The agent object a dispatch found: the object as it was, or the object as
\* createAgent has just built it when the dispatch is spawnTeammate's.
PreObj(o, id) == IF o \in 1..Len(objs) THEN objs[o] ELSE NewAgent(id)

\* At most one sendAndWait call is in flight on every session.
SingleFlight == \A o \in 1..Len(objs) : objs[o].inflight <= 1

\* The step is a sendToAgent call for an agent that is busy.
BusyDispatch ==
  /\ last'.op = "sendToAgent"
  /\ last'.task \in 1..Len(objs)
  /\ objs[last'.task].busy

\* C1 as stated: at most one sendAndWait in flight per session, and every
\* dispatch that arrives while the worker is busy uses the enqueue-mode send
\* and starts no sendAndWait.
C1_AsStated ==
  /\ []SingleFlight
  /\ [][BusyDispatch =>
          LET o == last'.task IN
            /\ objs'[o].enqueued = objs[o].enqueued + 1
            /\ objs'[o].started = objs[o].started]_vars

\* C1 (amended): at most one sendAndWait call is in flight on every session;
\* a dispatch that arrives while the worker is busy never starts a sendAndWait:
\* it uses the enqueue-mode send once when the worker is below its turn limit
\* and is dropped, with no send, when the turn limit is reached.
C1_SingleFlight ==
  /\ []SingleFlight
  /\ [][BusyDispatch =>
          LET o == last'.task IN
            /\ objs'[o].started = objs[o].started
            /\ objs'[o].inflight = objs[o].inflight
            /\ objs'[o].enqueued =
                 IF TurnsOf(turnCounts, objs[o].id) < MaxTurnsPerAgent
                 THEN objs[o].enqueued + 1
                 ELSE objs[o].enqueued]_vars

\* A poller tick found the worker busy and its prompt was enqueued.
C1_Witness ==
  /\ last.op = "sendToAgent" /\ last.arg = "enqueued" /\ last.ev = <<"tick">>
  /\ objs[last.task].busy /\ objs[last.task].inflight = 1
  /\ objs[last.task].enqueued = 1

\* C2: turnCounts is set to 0 when a worker is created, never decreases while
\* the worker exists, goes up by exactly 1 in each step that starts a
\* sendAndWait and in no other step (not when a turn settles, resolved or
\* rejected), and never exceeds maxTurnsPerAgent.
C2_TurnCounter ==
  /\ [](\A id \in DOMAIN turnCounts : turnCounts[id] \in 0..MaxTurnsPerAgent)
  /\ [][/\ (last'.op \in {"createLead", "spawnTeammate"}) => turnCounts'[last'.who] = 0
        /\ \A id \in DOMAIN agents \cap DOMAIN agents' :
             agents'[id] = agents[id] =>
               TurnsOf(turnCounts', id) >= TurnsOf(turnCounts, id)
        /\ \A o \in 1..Len(objs') :
             LET id == objs'[o].id IN
               objs'[o].started # PreObj(o, id).started =>
                 /\ objs'[o].started = PreObj(o, id).started + 1
                 /\ TurnsOf(turnCounts', id) = TurnsOf(turnCounts, id) + 1
        /\ \A id \in DOMAIN turnCounts' :
             TurnsOf(turnCounts', id) > TurnsOf(turnCounts, id) =>
               /\ TurnsOf(turnCounts', id) = TurnsOf(turnCounts, id) + 1
               /\ \E o \in 1..Len(objs') :
                    objs'[o].id = id /\ objs'[o].started = PreObj(o, id).started + 1
        /\ (last'.op = "settle") => turnCounts' = turnCounts]_vars

\* A turn that was the last one allowed has been rejected by the backend.
C2_Witness ==
  /\ last.op = "settle" /\ ~last.ok
  /\ last.who \in DOMAIN turnCounts
  /\ turnCounts[last.who] = MaxTurnsPerAgent
  /\ objs[last.task].started = MaxTurnsPerAgent

\* C3: a dispatch for a worker whose turn count has reached maxTurnsPerAgent
\* is dropped: no sendAndWait, no enqueue-mode send, busy and the turn count
\* unchanged, whether or not the worker is busy.
C3_DropOnExhaustedBudget ==
  [][(last'.op = "sendToAgent"
        /\ TurnsOf(turnCounts, last'.who) >= MaxTurnsPerAgent) =>
       /\ last'.arg = "dropped"
       /\ last'.task \in 1..Len(objs')
       /\ objs'[last'.task] = PreObj(last'.task, last'.who)
       /\ turnCounts' = turnCounts]_vars

\* A poller tick for a busy worker that had used up its turns was dropped.
C3_Witness ==
  /\ last.op = "sendToAgent" /\ last.arg = "dropped" /\ last.ev = <<"tick">>
  /\ objs[last.task].busy
  /\ objs[last.task].enqueued = 0

\* C4: busy is set exactly while a sendAndWait of the agent is in flight, and
\* the settling of the call, resolved or rejected, clears it.
C4_BusyReleased ==
  /\ [](\A o \in 1..Len(objs) : objs[o].busy <=> objs[o].inflight > 0)
  /\ [][(last'.op = "settle") =>
          /\ ~objs'[last'.task].busy
          /\ objs'[last'.task].inflight = objs[last'.task].inflight - 1]_vars

\* A teammate's turn was rejected and the teammate is idle again.
C4_Witness ==
  /\ last.op = "settle" /\ ~last.ok /\ last.who = TeammateIds[1]
  /\ ~objs[last.task].busy /\ objs[last.task].inflight = 0

\* ------------------------------------------------------------------------
\* Who may fail and who may claim a task (checked under SpecTasks)
\* ------------------------------------------------------------------------
\* C11: failTask called by an id other than the task's current assignee leaves
\* the task as it was, so a task moves to failed only by a call of its
\* assignee.
C11_FailOnlyByAssignee ==
  [][(last'.op = "failTask" /\ last'.task \in DOMAIN tasks
        /\ tasks[last'.task].assignee # last'.who) =>
       tasks'[last'.task] = tasks[last'.task]]_vars

\* A task assigned to one agent has been moved to failed by another agent.
C11_Witness ==
  /\ last.op = "failTask" /\ last.ok
  /\ tasks[last.task].status = "failed"
  /\ tasks[last.task].assignee \in TaskAgents \ {last.who}

\* C12: claimTask succeeds only on a task that has no assignee or whose
\* assignee is the caller, so a pending task created with an assignee is never
\* moved to in-progress, nor reassigned, by a claim of a different agent.
C12_ClaimUnassignedOrSelf ==
  [][(last'.op = "claimTask" /\ last'.ok) =>
       tasks[last'.task].assignee \in {NoAgent, last'.who}]_vars

\* ------------------------------------------------------------------------
\* Properties of the MessagePoller (checked under SpecPoller)
\* ------------------------------------------------------------------------
\* The step is one firing of a polling interval.
TickStep ==
  \/ last'.op = "tick"
  \/ last'.op = "sendToAgent" /\ last'.ev = <<"tick">>

\* The mailbox of id holds no unread message.
NoUnread(mb, id) == id \notin DOMAIN mb \/ Unread(mb[id]) = {}

\* The prompt lists exactly the unread messages of the box, each with its
\* sender and content, in the order of the box.
PromptOfUnread(prompt, box) ==
  /\ Len(prompt) = Cardinality(Unread(box))
  /\ \A i \in Unread(box) :
       LET k == Cardinality({j \in Unread(box) : j <= i}) IN
         /\ prompt[k].from = box[i].from
         /\ prompt[k].content = box[i].content

\* The tick marked every message of the box read, changed nothing else on the
\* bus, and made one sendToAgent call with the prompt of the unread messages.
ForwardedAll ==
  LET id == last'.who IN
  /\ last'.op = "sendToAgent"
  /\ DOMAIN mailboxes' = DOMAIN mailboxes
  /\ \A a \in DOMAIN mailboxes : a # id => mailboxes'[a] = mailboxes[a]
  /\ Len(mailboxes'[id]) = Len(mailboxes[id])
  /\ \A i \in 1..Len(mailboxes[id]) :
       mailboxes'[id][i] = [mailboxes[id][i] EXCEPT !.read = TRUE]
  /\ PromptOfUnread(last'.ret, mailboxes[id])
  /\ UNCHANGED <<msgCounter, tasks, taskCounter>>

\* C13: a tick for a worker whose mailbox holds no unread message makes no
\* sendToAgent call and changes nothing on the bus (nor any agent or turn
\* count).
C13_IdleTick ==
  [][(TickStep /\ NoUnread(mailboxes, last'.who)) =>
       /\ last'.op = "tick"
       /\ UNCHANGED <<busVars, objs, turnCounts>>]_vars

\* A running poller ticked on a mailbox whose messages had all been read.
C13_Witness ==
  /\ last.op = "tick" /\ pollerRunning
  /\ last.who \in DOMAIN mailboxes
  /\ Len(mailboxes[last.who]) > 0
  /\ Unread(mailboxes[last.who]) = {}
  /\ last.task \in timers

\* C14 as stated: every tick for a worker with unread mail marks all of the
\* worker's unread messages read in one step and makes exactly one
\* sendToAgent call whose prompt holds every one of them, with its sender, in
\* arrival order.
C14_AsStated ==
  [][(TickStep /\ ~NoUnread(mailboxes, last'.who)) => ForwardedAll]_vars

\* C14 (amended): a tick of a poller that has not been stopped, for a worker
\* with unread mail, marks all of the worker's unread messages read in one
\* step and makes exactly one sendToAgent call whose prompt holds every one of
\* them, with its sender, in arrival order; after stopAll a tick reads and
\* forwards nothing.
C14_TickForwardsAll ==
  [][(TickStep /\ ~NoUnread(mailboxes, last'.who)) =>
       IF pollerRunning THEN ForwardedAll
       ELSE last'.op = "tick" /\ UNCHANGED <<busVars, objs, turnCounts>>]_vars

\* A tick forwarded two messages of different senders in one prompt.
C14_Witness ==
  /\ last.op = "sendToAgent" /\ last.ev = <<"tick">>
  /\ Len(last.ret) = 2
  /\ last.ret[1].from # last.ret[2].from
  /\ Unread(mailboxes[last.who]) = {}

\* C15: a message is forwarded by the poller at most once to its recipient.
\* A tick forwards only messages that were unread and leaves them all read;
\* a message that is read stays in its place and stays read in every later
\* step, whatever the outcome of the dispatch: the settling of the backend
\* call, resolved or rejected, leaves every mailbox as it is.
C15_AtMostOnce ==
  [][/\ \A a \in DOMAIN mailboxes :
          /\ a \in DOMAIN mailboxes'
          /\ Len(mailboxes'[a]) >= Len(mailboxes[a])
          /\ \A i \in 1..Len(mailboxes[a]) :
               /\ mailboxes'[a][i].id = mailboxes[a][i].id
               /\ mailboxes[a][i].read => mailboxes'[a][i].read
     /\ (last'.op = "sendToAgent" /\ last'.ev = <<"tick">>) =>
          /\ PromptOfUnread(last'.ret, mailboxes[last'.who])
          /\ Unread(mailboxes'[last'.who]) = {}
     /\ (last'.op = "settle") => mailboxes' = mailboxes]_vars

\* The backend call of a forwarded prompt was rejected while the worker's
\* polling goes on: its two messages are read and will not be forwarded again.
C15_Witness ==
  /\ last.op = "settle" /\ ~last.ok
  /\ pollerRunning /\ last.task \in timers
  /\ last.who \in DOMAIN mailboxes
  /\ Len(mailboxes[last.who]) = 2
  /\ Unread(mailboxes[last.who]) = {}

\* ------------------------------------------------------------------------
\* The poller inside the orchestrator (checked under Spec)
\* ------------------------------------------------------------------------
\* C16: whether a tick forwards depends only on the poller running and the
\* mailbox holding unread mail, not on the worker being busy or out of turns;
\* a tick that does not forward leaves every busy flag and turn count alone,
\* one that forwards changes them only as sendToAgent does for the worker's
\* state, and no step other than a sendToAgent call or the settling of its
\* backend call changes a busy flag or the turn count of an existing worker.
C16_DetectionNotAdmission ==
  [][/\ TickStep =>
          /\ (last'.op = "sendToAgent") <=>
               (pollerRunning /\ ~NoUnread(mailboxes, last'.who))
          /\ (last'.op = "tick") => UNCHANGED <<objs, turnCounts>>
          /\ (last'.op = "sendToAgent") =>
               LET o == last'.task
                   turns == TurnsOf(turnCounts, last'.who)
               IN /\ \A x \in 1..Len(objs) : x # o => objs'[x] = objs[x]
                  /\ \A id \in DOMAIN turnCounts :
                       id # last'.who => TurnsOf(turnCounts', id) = turnCounts[id]
                  /\ IF turns >= MaxTurnsPerAgent
                     THEN last'.arg = "dropped" /\ UNCHANGED <<objs, turnCounts>>
                     ELSE IF objs[o].busy
                     THEN /\ last'.arg = "enqueued"
                          /\ objs'[o] = [objs[o] EXCEPT !.enqueued = @ + 1]
                          /\ turnCounts' = turnCounts
                     ELSE /\ last'.arg = "started"
                          /\ objs'[o].busy
                          /\ TurnsOf(turnCounts', last'.who) = turns + 1
     /\ \A x \in 1..Len(objs) :
          objs'[x].busy # objs[x].busy => last'.op \in {"sendToAgent", "settle"}
     /\ \A id \in DOMAIN turnCounts \cap DOMAIN turnCounts' :
          turnCounts'[id] # turnCounts[id] => last'.op = "sendToAgent"]_vars

\* A tick forwarded the mail of an idle worker that had used up its turns, and
\* sendToAgent dropped the prompt.
C16_Witness ==
  /\ last.op = "sendToAgent" /\ last.ev = <<"tick">> /\ last.arg = "dropped"
  /\ ~objs[last.task].busy
  /\ Len(last.ret) > 0
  /\ turnCounts[last.who] = MaxTurnsPerAgent

\* ------------------------------------------------------------------------
\* Stopping the poller (checked under SpecPoller)
\* ------------------------------------------------------------------------
\* C17: stopAll returns normally, stops the poller for good and clears every
\* interval and handle; from then on every tick, of any worker, makes no
\* sendToAgent call and changes nothing, so messages that are unread stay
\* unread; a stopAll that follows a stopAll changes nothing.
C17_GlobalStop ==
  [][/\ (last'.op = "stopAll") =>
          /\ last'.ok
          /\ ~pollerRunning' /\ timers' = {} /\ pollHandles' = <<>>
          /\ UNCHANGED <<busVars, objs, turnCounts>>
     /\ ~pollerRunning =>
          /\ ~pollerRunning'
          /\ last'.op # "sendToAgent"
          /\ TickStep => UNCHANGED <<busVars, objs, turnCounts, timers, pollHandles>>
          /\ \A a \in DOMAIN mailboxes :
               /\ a \in DOMAIN mailboxes'
               /\ \A i \in Unread(mailboxes[a]) : ~mailboxes'[a][i].read
     /\ (last.op = "stopAll" /\ last'.op = "stopAll") => UNCHANGED vars]_vars

\* After stopAll the interval of a worker whose polling was started later has
\* fired, and the message sent to the worker is still unread.
C17_Witness ==
  /\ last.op = "tick" /\ ~pollerRunning
  /\ last.task \in timers
  /\ last.who \in DOMAIN mailboxes
  /\ Unread(mailboxes[last.who]) # {}

\* C18: stopPolling(id) clears the interval of id and removes its handle and
\* touches nothing else: the handles and intervals of the other workers stay.
\* Every running interval has a handle, and sendToAgent is called for a worker
\* only by the interval its handle names, so while id has no handle no
\* dispatch is made for id and its unread mail stays unread.
C18_PerWorkerStop ==
  /\ [](timers = {pollHandles[id] : id \in DOMAIN pollHandles})
  /\ [][/\ (last'.op = "stopPolling") =>
             /\ last'.ok
             /\ last'.who \notin DOMAIN pollHandles'
             /\ \A id \in DOMAIN pollHandles \ {last'.who} :
                  /\ id \in DOMAIN pollHandles'
                  /\ pollHandles'[id] = pollHandles[id]
                  /\ (pollHandles[id] \in timers) => (pollHandles[id] \in timers')
             /\ timers' \subseteq timers
             /\ UNCHANGED <<busVars, objs, turnCounts, pollerRunning>>
        /\ (last'.op = "sendToAgent") =>
             /\ last'.who \in DOMAIN pollHandles
             /\ pollHandles[last'.who] = last'.task
        /\ \A a \in DOMAIN mailboxes \ DOMAIN pollHandles :
             /\ a \in DOMAIN mailboxes'
             /\ \A i \in Unread(mailboxes[a]) : ~mailboxes'[a][i].read]_vars

\* With the lead's polling stopped and a message for the lead left unread, a
\* tick has forwarded the teammate's mail.
C18_Witness ==
  /\ last.op = "sendToAgent" /\ last.ev = <<"tick">> /\ last.who = "t1"
  /\ pollerRunning
  /\ "lead" \notin DOMAIN pollHandles
  /\ \E o \in 1..Len(objs) : objs[o].id = "lead"
  /\ "lead" \in DOMAIN mailboxes
  /\ Unread(mailboxes["lead"]) # {}

\* ------------------------------------------------------------------------
\* The order of stop() (checked under Spec)
\* ------------------------------------------------------------------------
\* The step of stop() in which router.closeAll() is called.
ClosesChannels == last'.op = "stop" /\ "router.closeAll" \in Range(last'.ev)

\* C19: stop() stops all timers first, then destroys every session (a destroy
\* that fails does not keep the remaining sessions from being destroyed), then
\* clears all in-memory state (workers, turn counts, mailboxes, tasks), and
\* only then closes the output channels: when the channels are closed every
\* session has had destroy called and workers, turn counts, mailboxes and
\* tasks are empty.
C19_StopOrder ==
  [][/\ (last'.op = "stop" /\ last'.arg = "stopAll") =>
          /\ Head(last'.ev) = "poller.stopAll"
          /\ ~pollerRunning' /\ pollHandles' = <<>>
     /\ ClosesChannels =>
          /\ \A id \in DOMAIN agents : objs'[agents[id]].destroyed
          /\ agents' = <<>>
          /\ turnCounts' = <<>>
          /\ mailboxes' = <<>>
          /\ tasks' = <<>>]_vars

\* stop() has ended with client.stop() rejected: both sessions have had
\* destroy called, the workers are gone and the mailboxes are still there.
C19_Witness ==
  /\ last.op = "stop" /\ last.arg = "rejected"
  /\ stopPc = "idle" /\ stops = 1
  /\ agents = <<>> /\ turnCounts = <<>>
  /\ \A o \in 1..Len(objs) : objs[o].destroyed
  /\ Len(objs) = 2
  /\ DOMAIN mailboxes = {LeadId, TeammateIds[1]}

\* ------------------------------------------------------------------------
\* Registration (checked under SpecMail)
\* ------------------------------------------------------------------------
\* C20: registerAgent for an id that is already registered leaves every
\* mailbox, with its read and unread messages, and the set of registered ids
\* exactly as they were.
C20_RegisterIdempotent ==
  [][(last'.op = "registerAgent" /\ last'.who \in DOMAIN mailboxes) =>
       /\ last'.ok
       /\ mailboxes' = mailboxes
       /\ UNCHANGED <<msgCounter, tasks, taskCounter>>]_vars

\* An id whose mailbox holds a read and an unread message was registered again.
C20_Witness ==
  /\ last.op = "registerAgent"
  /\ last.who \in DOMAIN mailboxes
  /\ Len(mailboxes[last.who]) = 2
  /\ mailboxes[last.who][1].read
  /\ ~mailboxes[last.who][2].read

\* ------------------------------------------------------------------------
\* reset (checked under SpecBus)
\* ------------------------------------------------------------------------
\* C21: from any state, reset leaves the bus as a newly constructed one: no
\* mailbox (so no registered id and no message), no task, no listener, both
\* counters at 0, so that the next message and the next task created get the
\* ids msg-1 and task-1.
C21_ResetFresh ==
  [][/\ (last'.op = "reset") =>
          /\ last'.ok
          /\ mailboxes' = <<>> /\ tasks' = <<>> /\ listeners' = {}
          /\ msgCounter' = 0 /\ taskCounter' = 0
     /\ (last.op = "reset" /\ last'.op = "sendMessage" /\ last'.ok) =>
          last'.ret[1].id = 1
     /\ (last.op = "reset" /\ last'.op = "createTask") =>
          last'.task = 1 /\ DOMAIN tasks' = {1}]_vars

\* reset was called on a bus with two mailboxes, two messages sent, three
\* tasks created and two events listened to.
C21_Witness ==
  /\ last.op = "reset"
  /\ last.ret = <<2, 3, 2, 2>>
  /\ mailboxes = <<>> /\ tasks = <<>> /\ listeners = {}

\* ------------------------------------------------------------------------
\* What the tools reach (checked under SpecTools)
\* ------------------------------------------------------------------------
\* C22: a worker that holds a task in progress can move it to failed by a call
\* its backend can make: some tool call of the worker's session leads to a
\* state in which the task is failed.
C22_FailTaskCallable ==
  \A o \in 1..Len(objs), t \in DOMAIN tasks :
    (ToolCaller(o) /\ tasks[t].status = "in-progress"
       /\ tasks[t].assignee = objs[o].id) =>
      ENABLED (ToolStep(o) /\ tasks'[t].status = "failed")

\* What holds in its place: no sequence of tool calls, of any worker, ever
\* leaves a task failed.
C22_NoToolFails == \A t \in DOMAIN tasks : tasks[t].status # "failed"

\* The teammate holds a task in progress that it claimed with claim_task.
C22_Witness ==
  /\ last.op = "claimTask" /\ last.ok /\ last.who = TeammateIds[1]
  /\ tasks[last.task].status = "in-progress"
  /\ tasks[last.task].assignee = TeammateIds[1]
  /\ \E o \in 1..Len(objs) : objs[o].id = TeammateIds[1] /\ ToolCaller(o)

\* ------------------------------------------------------------------------
\* Polling across a restart (checked under SpecRestart)
\* ------------------------------------------------------------------------
\* C23: while the engine is running, every worker in the worker map that is
\* not being shut down has its polling interval, and every firing of that
\* interval that finds unread mail forwards it to sendToAgent; this holds for
\* the workers created after a stop() followed by start() as well.
C23_PollingCoversLife ==
  /\ [](running =>
          \A id \in DOMAIN agents : agents[id] \notin shutting => agents[id] \in timers)
  /\ [][(TickStep /\ running
           /\ last'.who \in DOMAIN agents /\ agents[last'.who] = last'.task
           /\ last'.task \notin shutting
           /\ ~NoUnread(mailboxes, last'.who)) =>
          last'.op = "sendToAgent"]_vars

\* After stop() and a second start() the new lead has unread mail, its
\* interval has fired, and the mail is still unread and unforwarded.
C23_Witness ==
  /\ last.op = "tick" /\ running /\ stops = 1
  /\ last.who \in DOMAIN agents /\ agents[last.who] = last.task
  /\ last.task \in timers
  /\ ~NoUnread(mailboxes, last.who)
  /\ ~pollerRunning

\* ------------------------------------------------------------------------
\* The enqueue path and the turn budget (checked under Spec)
\* ------------------------------------------------------------------------
\* C24: a sendToAgent call for a worker that is busy and below its turn limit
\* makes exactly one enqueue-mode send, starts no sendAndWait and leaves the
\* busy flag and every turn count as they were.
C24_EnqueuePath ==
  [][(/\ last'.op = "sendToAgent"
      /\ last'.task \in 1..Len(objs)
      /\ objs[last'.task].busy
      /\ TurnsOf(turnCounts, last'.who) < MaxTurnsPerAgent) =>
       LET o == last'.task IN
         /\ last'.arg = "enqueued"
         /\ objs'[o] = [objs[o] EXCEPT !.enqueued = @ + 1]
         /\ objs'[o].busy /\ objs'[o].started = objs[o].started
         /\ \A x \in 1..Len(objs) : x # o => objs'[x] = objs[x]
         /\ turnCounts' = turnCounts]_vars

\* A second submitTask found the lead busy in its first turn and was enqueued.
C24_Witness ==
  /\ last.op = "sendToAgent" /\ last.ev = <<"submitTask">> /\ last.arg = "enqueued"
  /\ objs[last.task].busy
  /\ objs[last.task].started = 1 /\ objs[last.task].enqueued = 1
  /\ turnCounts[LeadId] = 1

\* C25: the prompts handed to the session of a worker, sendAndWait calls and
\* enqueue-mode sends together, never number more than maxTurnsPerAgent.
C25_LoopBound ==
  \A o \in 1..Len(objs) : objs[o].started + objs[o].enqueued <= MaxTurnsPerAgent

\* The lead's session has been given all the turns allowed and an enqueued
\* prompt on top of them.
C25_Witness ==
  /\ LeadId \in DOMAIN agents
  /\ objs[agents[LeadId]].started = MaxTurnsPerAgent
  /\ objs[agents[LeadId]].enqueued >= 1
  /\ turnCounts[LeadId] = MaxTurnsPerAgent

\* ------------------------------------------------------------------------
\* Task states (checked under SpecTasks)
\* ------------------------------------------------------------------------
\* C26: once a task is completed or failed, no claimTask, completeTask or
\* failTask call, by any agent, changes its status or its result.
C26_TerminalStable ==
  [][(last'.op \in {"claimTask", "completeTask", "failTask"}) =>
       \A t \in DOMAIN tasks :
         tasks[t].status \in {"completed", "failed"} =>
           /\ tasks'[t].status = tasks[t].status
           /\ tasks'[t].result = tasks[t].result]_vars

\* C27: in every reachable state each task that is in progress or completed
\* has all the tasks of its dependsOn that exist in status completed.
C27_DependencyOrder ==
  \A t \in DOMAIN tasks :
    tasks[t].status \in {"in-progress", "completed"} =>
      \A d \in Range(tasks[t].dependsOn) \cap DOMAIN tasks :
        tasks[d].status = "completed"

\* A task whose dependencies all existed when it was created (their ids are
\* smaller than its own) is in progress or completed while one of them is
\* not completed.
C27_Witness ==
  \E t \in DOMAIN tasks :
    /\ tasks[t].status \in {"in-progress", "completed"}
    /\ \A d \in Range(tasks[t].dependsOn) : d < t
    /\ \E d \in Range(tasks[t].dependsOn) : tasks[d].status # "completed"

\* C28: createTask accepts a dependsOn id that names no existing task, and
\* the task created stays blocked: every claimTask of a task fails while one
\* of its dependsOn ids names no task or names a task that is not completed.
C28_MissingDependency ==
  [][/\ (last'.op = "createTask") => last'.ok
     /\ (/\ last'.op = "claimTask"
         /\ last'.task \in DOMAIN tasks
         /\ \E d \in Range(tasks[last'.task].dependsOn) :
              d \notin DOMAIN tasks \/ tasks[d].status # "completed")
        => ~last'.ok]_vars

\* A task has been claimed while one of its dependsOn ids names no task.
C28_Witness ==
  /\ last.op = "claimTask"
  /\ last.ok
  /\ tasks[last.task].status = "in-progress"
  /\ \E d \in Range(tasks[last.task].dependsOn) : d \notin DOMAIN tasks

\* C29: every claimTask, completeTask or failTask call that fails leaves
\* every task record unchanged and emits no event.
C29_FailedCallNoEffect ==
  [][(last'.op \in {"claimTask", "completeTask", "failTask"} /\ ~last'.ok) =>
       /\ tasks' = tasks
       /\ taskCounter' = taskCounter
       /\ last'.ev = <<>>]_vars

\* A claimTask has just failed on a dependency that is not completed, with
\* the task still pending and unassigned.
C29_Witness ==
  /\ last.op = "claimTask"
  /\ ~last.ok
  /\ last.arg = "blocked by dependency"
  /\ tasks[last.task].status = "pending"
  /\ tasks[last.task].assignee = NoAgent

\* ------------------------------------------------------------------------
\* Mailboxes over time (checked under SpecMail)
\* ------------------------------------------------------------------------
\* The message with its read flag left out.
Unflagged(m) == [id |-> m.id, from |-> m.from, to |-> m.to, content |-> m.content]

\* box2 holds the messages of box1 at the same positions, unchanged but for
\* a read flag that went from false to true.
Extends(box1, box2) ==
  /\ Len(box2) >= Len(box1)
  /\ \A i \in 1..Len(box1) :
       /\ Unflagged(box2[i]) = Unflagged(box1[i])
       /\ box1[i].read => box2[i].read

\* C30: for a registered id, every step other than unregisterAgent and reset
\* keeps the mailbox, with its messages in place and no read flag going back
\* to false; sendMessage adds at most one message, at the end, and changes no
\* read flag; readMessages with markRead = false changes no mailbox.
C30_AppendOnly ==
  [][/\ last'.op \notin {"unregisterAgent", "reset"} =>
          \A a \in DOMAIN mailboxes :
            /\ a \in DOMAIN mailboxes'
            /\ Extends(mailboxes[a], mailboxes'[a])
     /\ last'.op = "sendMessage" =>
          \A a \in DOMAIN mailboxes :
            /\ a \in DOMAIN mailboxes'
            /\ \/ mailboxes'[a] = mailboxes[a]
               \/ /\ last'.ok
                  /\ mailboxes'[a] =
                       Append(mailboxes[a], [last'.ret[1] EXCEPT !.to = a])
     /\ (last'.op = "readMessages" /\ ~last'.mark) =>
          mailboxes' = mailboxes]_vars

\* A message has just been appended behind a message already read.
C30_Witness ==
  /\ last.op = "sendMessage"
  /\ last.ok
  /\ last.arg \in DOMAIN mailboxes
  /\ Len(mailboxes[last.arg]) = 2
  /\ mailboxes[last.arg][1].read
  /\ mailboxes[last.arg][2] = last.ret[1]
  /\ ~mailboxes[last.arg][2].read

\* ------------------------------------------------------------------------
\* Polled mail and the dispatch function (checked under Spec)
\* ------------------------------------------------------------------------
\* The positions of the box of id whose message the step marks read.
MarkedByStep(id) ==
  IF id \in DOMAIN mailboxes /\ id \in DOMAIN mailboxes'
     /\ Len(mailboxes'[id]) = Len(mailboxes[id])
  THEN {i \in 1..Len(mailboxes[id]) : ~mailboxes[id][i].read /\ mailboxes'[id][i].read}
  ELSE {}

\* The step hands session o a prompt: a sendAndWait or an enqueue-mode send.
ReachesSession(o) ==
  \/ objs'[o].started = objs[o].started + 1
  \/ objs'[o].enqueued = objs[o].enqueued + 1

\* The step is a tick that marks some message read.
ConsumingTick == TickStep /\ MarkedByStep(last'.who) # {}

\* C31 as stated: every message a tick marks read is in a prompt that the
\* same tick hands to the worker's session.
C31_AsStated ==
  [][ConsumingTick =>
       /\ \A i \in MarkedByStep(last'.who) :
            \E k \in 1..Len(last'.ret) :
              /\ last'.ret[k].from = mailboxes[last'.who][i].from
              /\ last'.ret[k].content = mailboxes[last'.who][i].content
       /\ ReachesSession(last'.task)]_vars

\* C31: every message a tick marks read is in the prompt the tick passes to
\* sendToAgent, and that prompt is handed to the worker's session exactly
\* when the worker's turn count is below maxTurnsPerAgent; at the limit the
\* prompt is dropped with its messages marked read.
C31_NoDiscardWithinBudget ==
  [][ConsumingTick =>
       /\ \A i \in MarkedByStep(last'.who) :
            \E k \in 1..Len(last'.ret) :
              /\ last'.ret[k].from = mailboxes[last'.who][i].from
              /\ last'.ret[k].content = mailboxes[last'.who][i].content
       /\ ReachesSession(last'.task)
            <=> TurnsOf(turnCounts, last'.who) < MaxTurnsPerAgent]_vars

\* A tick has just marked a message read and dropped its prompt, the worker
\* being at the turn limit.
C31_Witness ==
  /\ last.op = "sendToAgent"
  /\ last.ev = <<"tick">>
  /\ last.arg = "dropped"
  /\ Len(last.ret) > 0
  /\ last.who \in DOMAIN mailboxes
  /\ \A i \in 1..Len(mailboxes[last.who]) : mailboxes[last.who][i].read
  /\ TurnsOf(turnCounts, last.who) = MaxTurnsPerAgent

\* ------------------------------------------------------------------------
\* Forwarding over time (checked under SpecRestartFair)
\* ------------------------------------------------------------------------
\* setInterval keeps firing an interval that has not been cleared, and the
\* backend settles every sendAndWait call.
TimersFire == \A o \in 1..(MaxStops + 2) : WF_vars(tick(o))
TurnsSettle == \A o \in 1..(MaxStops + 2) : WF_vars(\E ok \in BOOLEAN : settle(o, ok))

SpecRestartFair == SpecRestart /\ TimersFire /\ TurnsSettle

\* The engine is running and id has a mailbox and a poll timer that has not
\* been cleared.
Polled(id) ==
  /\ running
  /\ id \in DOMAIN mailboxes
  /\ id \in DOMAIN pollHandles
  /\ pollHandles[id] \in timers

\* C32: while the engine is running and a worker has its mailbox and an
\* active poll timer, an unread message in its mailbox is eventually marked
\* read (by a tick, which passes it to sendToAgent), timers firing for ever.
C32_EventualForwarding ==
  \A id \in {LeadId} :
    (Polled(id) /\ hasUnreadMessages(mailboxes, id))
      ~> (~Polled(id) \/ ~hasUnreadMessages(mailboxes, id))

\* The engine runs again after a stop, and the lead created since has an
\* active poll timer and an unread message while the poller is stopped.
C32_Witness ==
  /\ stops > 0
  /\ Polled(LeadId)
  /\ hasUnreadMessages(mailboxes, LeadId)
  /\ ~pollerRunning
  /\ last.op = "tick"

\* ------------------------------------------------------------------------
\* waitForCompletion (checked under SpecWaitFair)
\* ------------------------------------------------------------------------
\* The step is a return of waitForCompletion before its timeout.
ReturnsEarly ==
  /\ last'.op = "waitForCompletion"
  /\ waiting.pc # "returned"
  /\ waiting'.pc = "returned"

\* C33: waitForCompletion returns before its timeout only at a moment when
\* no worker of the agents map is busy and no task is pending or in
\* progress, with time left of its timeout; and a call that has not returned
\* early returns at the latest when its timeout has elapsed.
C33_WaitReturns ==
  /\ [][ReturnsEarly =>
          /\ \A id \in DOMAIN agents : ~objs[agents[id]].busy
          /\ \A t \in DOMAIN tasks : tasks[t].status \notin {"pending", "in-progress"}
          /\ waiting'.left > 0
          /\ UNCHANGED <<agents, objs, tasks>>]_vars
  /\ (waiting.pc = "sleeping") ~> (waiting.pc \in {"returned", "timed out"})

\* A call that slept has returned before its timeout, a turn having been
\* started and a task created.
C33_Witness ==
  /\ waiting.pc = "returned"
  /\ last.op = "waitForCompletion"
  /\ waiting.left < MaxWait
  /\ \E o \in 1..Len(objs) : objs[o].started > 0
  /\ taskCounter > 0

\* A call has timed out after sleeping while a task was still in progress.
C33_WitnessTimeout ==
  /\ waiting.pc = "timed out"
  /\ last.op = "waitForCompletion"
  /\ \E t \in DOMAIN tasks : tasks[t].status = "in-progress"

\* C34: whenever waitForCompletion returns before its timeout, no registered
\* mailbox holds an unread message.
C34_QuiescentAtReturn ==
  [][ReturnsEarly =>
       \A id \in DOMAIN mailboxes : ~hasUnreadMessages(mailboxes, id)]_vars

\* waitForCompletion has returned before its timeout, after the lead's turn
\* had settled, while the lead's mailbox holds an unread message.
C34_Witness ==
  /\ waiting.pc = "returned"
  /\ last.op = "waitForCompletion"
  /\ LeadId \in DOMAIN agents
  /\ objs[agents[LeadId]].started > 0
  /\ ~objs[agents[LeadId]].busy
  /\ hasUnreadMessages(mailboxes, LeadId)
  /\ \E i \in 1..Len(mailboxes[LeadId]) : mailboxes[LeadId][i].from = TeammateIds[1]

\* ------------------------------------------------------------------------
\* Teammates (checked under Spec)
\* ------------------------------------------------------------------------
\* The step is the rejection of the sendAndWait call that carries the
\* initial prompt of teammate object o: its first turn, started by
\* spawnTeammate.
InitialTurnFails(o) ==
  /\ last'.op = "settle"
  /\ last'.arg = "rejected"
  /\ last'.task = o
  /\ objs[o].id # LeadId
  /\ objs[o].started = 1
  /\ objs[o].inflight = 1

\* C35: when the backend turn for a spawned teammate's initial prompt fails,
\* a message from that teammate is appended to the lead's mailbox.
C35_StartupFailureReported ==
  [][\A o \in 1..Len(objs) :
       (InitialTurnFails(o) /\ LeadId \in DOMAIN mailboxes) =>
         /\ LeadId \in DOMAIN mailboxes'
         /\ Len(mailboxes'[LeadId]) = Len(mailboxes[LeadId]) + 1
         /\ mailboxes'[LeadId][Len(mailboxes'[LeadId])].from = objs[o].id]_vars

\* The initial turn of a teammate has just failed, the teammate is idle
\* again, and the lead's mailbox holds no message from it.
C35_Witness ==
  /\ last.op = "settle"
  /\ last.arg = "rejected"
  /\ last.who = TeammateIds[1]
  /\ objs[last.task].started = 1
  /\ ~objs[last.task].busy
  /\ LeadId \in DOMAIN mailboxes
  /\ \A i \in 1..Len(mailboxes[LeadId]) : mailboxes[LeadId][i].from # TeammateIds[1]

\* Agent object o is no longer the entry of its id in the agents map: it was
\* removed by shutdownAgent or by stop().
Removed(o) == objs[o].id \notin DOMAIN agents \/ agents[objs[o].id] # o

\* C36: the settling of a sendAndWait call for a worker that has been removed
\* from the agents map, by shutdownAgent or by stop(), changes nothing but
\* that agent object: the agents map, the turn counts, the poll timers, the
\* mailboxes and the tasks are as before.
C36_SettleAfterRemoval ==
  [][\A o \in 1..Len(objs) :
       (last'.op = "settle" /\ last'.task = o /\ Removed(o)) =>
         /\ UNCHANGED <<agents, turnCounts, pollHandles, timers, pending, busVars>>
         /\ \A x \in 1..Len(objs) : x # o => objs'[x] = objs[x]
         /\ objs'[o].id = objs[o].id
         /\ objs'[o].started = objs[o].started]_vars

\* A turn has just settled for a teammate that shutdownAgent had removed
\* while the turn was in flight.
C36_Witness ==
  /\ last.op = "settle"
  /\ last.who = TeammateIds[1]
  /\ last.who \notin DOMAIN agents
  /\ last.who \notin DOMAIN turnCounts
  /\ last.who \notin DOMAIN mailboxes
  /\ stopPc = "idle" /\ stops = 0
  /\ ~objs[last.task].busy

\* A turn has just settled for the lead after stop() had cleared the agents
\* map with the turn in flight.
C36_WitnessStop ==
  /\ last.op = "settle"
  /\ last.who = LeadId
  /\ stops > 0
  /\ agents = <<>>
  /\ turnCounts = <<>>

\* stop() has run to its end and no createAgent call is awaiting its session.
StopSettled == stops > 0 /\ stopPc = "idle" /\ pending = {}

\* C37: once stop() and every pending createLead or spawnTeammate call have
\* settled, the agents map, the poll timers and the turn counts are empty;
\* and a session creation that resolves after stop() was called starts no
\* backend turn.
C37_StopFinal ==
  /\ [](StopSettled =>
          /\ agents = <<>>
          /\ pollHandles = <<>>
          /\ timers = {}
          /\ turnCounts = <<>>)
  /\ [][(stops > 0 /\ pending' # pending) =>
          \A o \in 1..Len(objs') :
            objs'[o].started = IF o \in 1..Len(objs) THEN objs[o].started ELSE 0]_vars

\* After stop() has ended, a teammate whose session was created late is in
\* the agents map with a poll timer, a turn count of 1 and a turn in flight.
C37_Witness ==
  /\ StopSettled
  /\ ~running
  /\ TeammateIds[1] \in DOMAIN agents
  /\ agents[TeammateIds[1]] \in timers
  /\ TurnsOf(turnCounts, TeammateIds[1]) = 1
  /\ objs[agents[TeammateIds[1]]].inflight = 1
  /\ ~objs[agents[TeammateIds[1]]].destroyed

\* The ids that have a poll timer that has not been cleared.
PolledIds == {id \in DOMAIN pollHandles : pollHandles[id] \in timers}

\* The engine is running and no createAgent, shutdownAgent or stop() call is
\* at an await.
Steady == running /\ pending = {} /\ shutting = {} /\ stopPc = "idle"

\* C38: while the engine is running and no create or shutdown call is in
\* flight, the ids with a mailbox, the ids of the agents map and the ids with
\* an active poll timer are the same set.
C38_RegistriesConsistent ==
  Steady => /\ DOMAIN mailboxes = DOMAIN agents
            /\ DOMAIN agents = PolledIds

\* shutdownAgent has just thrown on a rejected session.destroy(): the
\* teammate is in the agents map with its mailbox but without a poll timer.
C38_Witness ==
  /\ Steady
  /\ last.op = "shutdownAgent"
  /\ last.arg = "rejected"
  /\ last.who \in DOMAIN agents
  /\ last.who \in DOMAIN mailboxes
  /\ last.who \notin PolledIds

\* createAgent has just thrown on a rejected client.createSession: the id has
\* a mailbox and a turn count but no entry in the agents map.
C38_WitnessCreate ==
  /\ Steady
  /\ last.op = "createAgent"
  /\ ~last.ok
  /\ last.who \in DOMAIN mailboxes
  /\ last.who \in DOMAIN turnCounts
  /\ last.who \notin DOMAIN agents

\* C39: a shutdownAgent call for the lead or for an id that is not in the
\* agents map throws and changes nothing; when the session.destroy() of a
\* teammate's shutdownAgent call resolves, the teammate's id is left in
\* neither the agents map nor the turn counts nor the poll handles nor the
\* mailboxes, and its interval is cleared.
C39_ShutdownAgent ==
  [][(last'.op = "shutdownAgent") =>
       /\ (last'.arg \notin {"removed", "rejected"}
           /\ (last'.who = LeadId \/ last'.who \notin DOMAIN agents)) =>
            /\ ~last'.ok
            /\ UNCHANGED <<busVars, orchVars>>
       /\ (last'.arg = "removed") =>
            /\ last'.who # LeadId
            /\ last'.who \notin DOMAIN agents'
            /\ last'.who \notin DOMAIN turnCounts'
            /\ last'.who \notin DOMAIN pollHandles'
            /\ last'.who \notin DOMAIN mailboxes'
            /\ last'.task \notin timers'
       /\ (LeadId \in DOMAIN agents) => (LeadId \in DOMAIN agents')]_vars

\* A teammate that had a turn count and mail has just been removed by
\* shutdownAgent.
C39_Witness ==
  /\ last.op = "shutdownAgent"
  /\ last.arg = "removed"
  /\ last.who = TeammateIds[1]
  /\ last.who \notin DOMAIN agents
  /\ objs[last.task].started > 0
  /\ LeadId \in DOMAIN agents

\* shutdownAgent has just refused to shut down the lead.
C39_WitnessLead ==
  /\ last.op = "shutdownAgent"
  /\ last.arg = "lead"
  /\ ~last.ok
  /\ LeadId \in DOMAIN agents

\* ------------------------------------------------------------------------
\* Fallback sink (checked under SpecRouter)
\* ------------------------------------------------------------------------
RECURSIVE Rendered(_, _)
\* The text for the whole event history taken at once: every character that
\* follows a line feed, or starts the output, is preceded by the prefix.
Rendered(events, atStart) ==
  IF events = <<>> THEN <<>>
  ELSE IF Head(events) = "e" THEN <<"e">> \o Rendered(Tail(events), TRUE)
  ELSE (IF atStart THEN <<Prefix>> ELSE <<>>) \o <<Head(events)>>
         \o Rendered(Tail(events), Head(events) = "n")

\* The position at which the line of position i of w starts.
LineStart(w, i) ==
  CHOOSE j \in 1..i :
    /\ j = 1 \/ w[j - 1] \in {"n", "e"}
    /\ \A k \in j..(i - 1) : w[k] \notin {"n", "e"}

\* C40: the text written depends only on the concatenation of the deltas (and
\* the ends of messages), not on the split into deltas; and the line of every
\* streamed character begins with the prefix and holds no second prefix.
C40_PrefixOncePerLine ==
  /\ router.written = Rendered(router.fed, TRUE)
  /\ \A i \in 1..Len(router.written) :
       router.written[i] \in Chars =>
         LET j == LineStart(router.written, i) IN
           /\ router.written[j] = Prefix
           /\ \A k \in (j + 1)..i : router.written[k] # Prefix

\* Two lines have been streamed, the last delta carrying the line feed of
\* the first line and the first character of the second.
C40_Witness ==
  /\ router.fed = <<"a", "a", "n", "a">>
  /\ router.written = <<Prefix, "a", "a", "n", Prefix, "a">>
  /\ last.op = "message_delta"
  /\ last.ret = <<"n", "a">>

====
